---- MODULE Spec2Model ----
(***************************************************************************)
(* Hirelink backend: session / credential lifecycle.                       *)
(*                                                                         *)
(* The model covers the authentication service (register, verifyEmail,     *)
(* login, refresh, requestPasswordReset, resetPassword, logout,            *)
(* logoutAllDevices), its controllers (the "jwt" refresh cookie), the      *)
(* verification-token service and the requireAuth middleware.              *)
(* services/token.service.js is imported by the repository but is not part *)
(* of the source tree at hand: its operations (store, rotateRefreshToken,  *)
(* revokeRefreshToken, revokeAllRefreshTokens, generateAccessToken,        *)
(* verifyAccessToken) follow the written specification of the ledger.      *)
(***************************************************************************)
EXTENDS Integers, Sequences, FiniteSets, TLC

VARIABLES
    now,            \* the clock (Date.now()), in abstract ticks
    users,          \* table User joined with its two profile tables
    refreshTokens,  \* table RefreshToken: a sequence of rows, row id = index
    vtSeq,          \* number of verification/reset tokens generated so far
    last,           \* the last handler call: its inputs and its HTTP outcome
    rotOK,          \* history: successful rotations per presented secret
    req,            \* in-flight refresh requests (request-per-task concurrency)
    bearer,         \* the access token a client holds for its next requests
    admitted,       \* history: requireAuth has let the held token through
    applications,   \* table Application: a sequence of rows
    vtKind          \* history: the operation that issued each token

vars == <<now, users, refreshTokens, vtSeq, last, rotOK, req, bearer, admitted,
          applications, vtKind>>

----------------------------------------------------------------------------
(* Bounds of the model *)

MaxTime == 2
MaxTokens == 3
MaxVerif == 2
MaxRows == 2

(* Configuration: TTLs in ticks *)
RefreshTtl == 1
VerifTtl == 1
AccessTtl == 1

UserIds == {"u1", "u2"}
Passwords == {"pw1", "pw2"}
Procs == {"r1", "r2"}

\* The e-mail address of an account; e-mail is unique, one account per address.
EmailOf(u) == IF u = "u1" THEN "a@x" ELSE "b@x"
Emails == {EmailOf(u) : u \in UserIds} \cup {"nobody@x"}

Null == 0 - 1
NoToken == 0                       \* no cookie / no token presented
UnknownSecret == MaxTokens + 1     \* a well-formed secret that was never issued
NoAccess == [id |-> "none", exp |-> Null, sig |-> FALSE]
NoReqUser == [id |-> "none", role |-> "NONE"]

\* statusCodes.utils.js
OK == 200
CREATED == 201
BAD_REQUEST == 400
UNAUTHORIZED == 401
FORBIDDEN == 403
NOT_FOUND == 404
CONFLICT == 409
INTERNAL_SERVER_ERROR == 500

----------------------------------------------------------------------------
(* Rows *)

AbsentUser ==
    [exists |-> FALSE, role |-> "NONE", isActive |-> FALSE,
     isEmailVerified |-> FALSE, password |-> <<"bcrypt", "none">>,
     verificationToken |-> Null, verificationExpiresAt |-> Null,
     talentProfile |-> FALSE, employerProfile |-> FALSE]

\* The moderator account the deployment seeds directly in the database.
SeededModerator ==
    [exists |-> TRUE, role |-> "MODERATOR", isActive |-> TRUE,
     isEmailVerified |-> TRUE, password |-> <<"bcrypt", "pw1">>,
     verificationToken |-> Null, verificationExpiresAt |-> Null,
     talentProfile |-> FALSE, employerProfile |-> FALSE]

\* bcrypt.hash / bcrypt.compare
BcryptHash(p) == <<"bcrypt", p>>
BcryptCompare(p, h) == h = BcryptHash(p)

\* token.service: one-way hash of a refresh secret
HashToken(s) == <<"sha256", s>>

\* requireRole's argument: one role name (isArray FALSE, one item) or an
\* array of role names.
NoAllowed == [isArray |-> FALSE, items |-> <<>>]

\* The outcome of a handler call, as the client sees it.
\* op: the handler; arg: the e-mail, user id or Authorization scheme it was
\* called with; secret: the refresh secret or verification token presented;
\* token: the access token returned (requireAuth: the one presented);
\* cookie: what the controller did to the "jwt" cookie ("none", "set",
\* "clear"); header: the Authorization header a middleware received;
\* allowed: the roles a role gate was built with; jobId: the job an
\* application names; raced: what the request found at its lookups was
\* changed by another request before its write;
\* nextCalls, reqUser: a middleware's calls of next() and the
\* req.user it attached; again: the call repeats the previous call (same
\* handler, same token).
Res(op, arg, secret, ok, code, msg) ==
    [op |-> op, arg |-> arg, secret |-> secret, ok |-> ok, statusCode |-> code,
     message |-> msg, token |-> NoAccess, refreshToken |-> NoToken,
     requiresVerification |-> FALSE, cookie |-> "none",
     header |-> <<>>, nextCalls |-> 0, reqUser |-> NoReqUser, again |-> FALSE,
     allowed |-> NoAllowed, jobId |-> "none", raced |-> FALSE]

\* An account after register + verifyEmail
VerifiedUser(role) ==
    [exists |-> TRUE, role |-> role, isActive |-> TRUE,
     isEmailVerified |-> TRUE, password |-> <<"bcrypt", "pw1">>,
     verificationToken |-> Null, verificationExpiresAt |-> Null,
     talentProfile |-> (role = "TALENT"), employerProfile |-> (role = "EMPLOYER")]

\* A request slot: pc is the handler's position ("idle": no request;
\* "rotate": refresh was called, the rotation has not run; "respond": the
\* rotation committed, the response is not yet composed; "tx": resetPassword
\* has opened its transaction); wasActive: the presented token was still
\* rotatable when the request arrived; user, newPassword: what resetPassword
\* is about to write; writes: the statements issued inside the open
\* transaction, invisible to every other request until it commits; jobId:
\* the job applyToJob is about to apply to.
IdleReq == [pc |-> "idle", presented |-> NoToken, wasActive |-> FALSE,
            rotation |-> Res("init", "none", NoToken, TRUE, OK, ""),
            user |-> "none", newPassword |-> "none", writes |-> {},
            jobId |-> "none"]

InitRest ==
    /\ now = 0
    /\ refreshTokens = <<>>
    /\ vtSeq = 0
    /\ last = Res("init", "none", NoToken, TRUE, OK, "")
    /\ rotOK = [s \in 0..UnknownSecret |-> 0]
    /\ req = [p \in Procs |-> IdleReq]
    /\ bearer = NoAccess
    /\ admitted = FALSE
    /\ applications = <<>>
    /\ vtKind = <<>>

\* The session service over two verified accounts: a registered talent and
\* the seeded moderator.
Init ==
    /\ users = [u \in UserIds |->
                    IF u = "u1" THEN VerifiedUser("TALENT") ELSE SeededModerator]
    /\ InitRest

----------------------------------------------------------------------------
(* Persistence helpers (prisma queries) *)

\* userService.findUser(email): the account registered for an e-mail address
FindUser(email) ==
    IF \E u \in UserIds : users[u].exists /\ EmailOf(u) = email
    THEN CHOOSE u \in UserIds : users[u].exists /\ EmailOf(u) = email
    ELSE "none"

\* prisma.user.findFirst({ where: { verificationToken } })
FindUserByVerificationToken(vt) ==
    IF \E u \in UserIds : users[u].exists /\ users[u].verificationToken = vt
    THEN CHOOSE u \in UserIds : users[u].exists /\ users[u].verificationToken = vt
    ELSE "none"

\* generateToken(): a fresh, unguessable verification/reset token
GenerateToken == vtSeq + 1

\* `new Date() > expiresAt`
IsPast(expiresAt) == now > expiresAt

----------------------------------------------------------------------------
(* token.service: the refresh-token ledger *)

\* store that persists the secret as it was issued
NewRowRaw(userId, secret, expiresAt) ==
    [userId |-> userId, token |-> <<"plain", secret>>, expiresAt |-> expiresAt,
     revoked |-> FALSE, replacedById |-> Null]

\* A row keeps userId, token (the hash), expiresAt, revoked and replacedById.
\* revokedAt, a timestamp written together with revoked and never read by any
\* handler, is not tracked.
NewRow(userId, secret, expiresAt) ==
    [userId |-> userId, token |-> HashToken(secret), expiresAt |-> expiresAt,
     revoked |-> FALSE, replacedById |-> Null]

\* generateRefreshToken(): a fresh opaque secret
GenerateRefreshToken(rows) == Len(rows) + 1

\* store(secret, userId, expiresAt): hash the secret, insert a new active row
Store(rows, secret, userId, expiresAt) ==
    Append(rows, NewRow(userId, secret, expiresAt))

\* look a presented secret up by its hash; 0 when no row matches
FindRowByHash(rows, secret) ==
    IF \E i \in DOMAIN rows : rows[i].token = HashToken(secret)
    THEN CHOOSE i \in DOMAIN rows : rows[i].token = HashToken(secret)
    ELSE 0

\* revokeAll(userId): mark every non-revoked row of the user revoked
RevokeAllRows(rows, userId) ==
    [i \in DOMAIN rows |->
        IF rows[i].userId = userId /\ ~rows[i].revoked
        THEN [rows[i] EXCEPT !.revoked = TRUE]
        ELSE rows[i]]

\* rotate that never compares expiresAt with the clock
RotateOutcomeNoExpiry(rows, secret) ==
    LET i == FindRowByHash(rows, secret) IN
    IF i = 0 THEN "invalid"
    ELSE IF rows[i].revoked THEN "replay"
    ELSE "rotated"

\* rotate, the decision: which branch a presented secret takes
RotateOutcome(rows, secret) ==
    LET i == FindRowByHash(rows, secret) IN
    IF i = 0 THEN "invalid"
    ELSE IF rows[i].revoked THEN "replay"
    ELSE IF now > rows[i].expiresAt THEN "expired"
    ELSE "rotated"

\* rotate whose replay branch fails without revoking the user's other rows
RotateLedgerReplayOne(rows, secret) ==
    LET i == FindRowByHash(rows, secret)
        out == RotateOutcome(rows, secret)
    IN  CASE out = "invalid" -> rows
          [] out = "replay"  -> rows
          [] out = "expired" -> [rows EXCEPT ![i].revoked = TRUE]
          [] out = "rotated" ->
                Store([rows EXCEPT ![i].revoked = TRUE,
                                   ![i].replacedById = Len(rows) + 1],
                      GenerateRefreshToken(rows), rows[i].userId,
                      now + RefreshTtl)

\* rotate, the ledger after the transaction committed
RotateLedger(rows, secret) ==
    LET i == FindRowByHash(rows, secret)
        out == RotateOutcome(rows, secret)
    IN  CASE out = "invalid" -> rows
          [] out = "replay"  -> RevokeAllRows(rows, rows[i].userId)
          [] out = "expired" ->
                [rows EXCEPT ![i].revoked = TRUE]
          [] out = "rotated" ->
                Store([rows EXCEPT ![i].revoked = TRUE,
                                   ![i].replacedById = Len(rows) + 1],
                      GenerateRefreshToken(rows), rows[i].userId,
                      now + RefreshTtl)

\* rotate, the structured result handed back to the session service
RotateResult(rows, secret) ==
    LET i == FindRowByHash(rows, secret)
        out == RotateOutcome(rows, secret)
    IN  CASE out = "invalid" ->
                Res("refresh", "none", secret, FALSE, UNAUTHORIZED, "invalid refresh token")
          [] out = "replay" ->
                Res("refresh", "none", secret, FALSE, UNAUTHORIZED, "refresh token reuse detected")
          [] out = "expired" ->
                Res("refresh", "none", secret, FALSE, UNAUTHORIZED, "refresh token expired")
          [] out = "rotated" ->
                [Res("refresh", rows[i].userId, secret, TRUE, OK, "token refreshed")
                    EXCEPT !.refreshToken = GenerateRefreshToken(rows)]

\* revoke(secret): mark the single matching row revoked; no-op otherwise
RevokeRow(rows, secret) ==
    LET i == FindRowByHash(rows, secret) IN
    IF i # 0 /\ ~rows[i].revoked
    THEN [rows EXCEPT ![i].revoked = TRUE]
    ELSE rows

\* revoke(secret), the result: always success
RevokeResult(secret) == Res("logout", "none", secret, TRUE, OK, "logged out")

\* generateAccessToken(userId): signed (userId, expiry)
GenerateAccessToken(userId) ==
    [id |-> userId, exp |-> now + AccessTtl, sig |-> TRUE]

----------------------------------------------------------------------------
(* Authentication service and its controllers: one action per handler *)

UserOfEmail(email) == CHOOSE u \in UserIds : EmailOf(u) = email

\* register that passes every role on to the user table
RegisterAnyRole(email, password, role) ==
    /\ \E u \in UserIds : EmailOf(u) = email
    /\ LET u == UserOfEmail(email) IN
       IF users[u].exists
       THEN /\ last' = Res("register", email, NoToken, FALSE, CONFLICT,
                           "user with this email already exists")
            /\ UNCHANGED <<users, vtSeq, vtKind>>
       ELSE /\ vtSeq < MaxVerif
            /\ users' = [users EXCEPT ![u] =
                    [exists |-> TRUE, role |-> role, isActive |-> TRUE,
                     isEmailVerified |-> FALSE, password |-> BcryptHash(password),
                     verificationToken |-> GenerateToken,
                     verificationExpiresAt |-> now + VerifTtl,
                     talentProfile |-> (role = "TALENT"),
                     employerProfile |-> (role = "EMPLOYER")]]
            /\ vtSeq' = vtSeq + 1
            /\ vtKind' = Append(vtKind, "register")
            /\ last' = Res("register", email, GenerateToken, TRUE, CREATED, "user created")
    /\ UNCHANGED <<now, refreshTokens, rotOK, req, bearer, admitted,
                   applications>>

\* register -> talentService/employerService.createProfile
Register(email, password, role) ==
    /\ \E u \in UserIds : EmailOf(u) = email
    /\ LET u == UserOfEmail(email) IN
       IF role \notin {"TALENT", "EMPLOYER"}
       THEN /\ last' = Res("register", email, NoToken, FALSE, BAD_REQUEST, "Invalid role")
            /\ UNCHANGED <<users, vtSeq, applications, vtKind>>
       ELSE IF users[u].exists
       THEN /\ last' = Res("register", email, NoToken, FALSE, CONFLICT,
                           "user with this email already exists")
            /\ UNCHANGED <<users, vtSeq, applications, vtKind>>
       ELSE /\ vtSeq < MaxVerif
            /\ users' = [users EXCEPT ![u] =
                    [exists |-> TRUE, role |-> role, isActive |-> TRUE,
                     isEmailVerified |-> FALSE, password |-> BcryptHash(password),
                     verificationToken |-> GenerateToken,
                     verificationExpiresAt |-> now + VerifTtl,
                     talentProfile |-> (role = "TALENT"),
                     employerProfile |-> (role = "EMPLOYER")]]
            /\ vtSeq' = vtSeq + 1
            /\ vtKind' = Append(vtKind, "register")
            /\ last' = Res("register", email, GenerateToken, TRUE, CREATED, "user created")
    /\ UNCHANGED <<now, refreshTokens, rotOK, req, bearer, admitted,
                   applications>>

\* the update that clears the expiry and leaves the token in place
ClearVerificationKeepToken(u) ==
    [users EXCEPT ![u].verificationExpiresAt = Null]

ClearVerification(u) ==
    [users EXCEPT ![u].verificationToken = Null,
                  ![u].verificationExpiresAt = Null]

\* verifyEmail({ verificationToken })
VerifyEmail(vt) ==
    /\ LET u == FindUserByVerificationToken(vt) IN
       IF u = "none"
       THEN /\ last' = Res("verifyEmail", "none", vt, FALSE, BAD_REQUEST,
                           "invalid or expired verification token")
            /\ UNCHANGED users
       ELSE IF users[u].isEmailVerified
       THEN /\ users' = ClearVerification(u)
            /\ last' = Res("verifyEmail", u, vt, FALSE, BAD_REQUEST,
                           "email already verified")
       ELSE IF users[u].verificationExpiresAt = Null
               \/ IsPast(users[u].verificationExpiresAt)
       THEN /\ users' = ClearVerification(u)
            /\ last' = Res("verifyEmail", u, vt, FALSE, BAD_REQUEST,
                           "verification token has expired")
       ELSE /\ users' = [ClearVerification(u) EXCEPT ![u].isEmailVerified = TRUE]
            /\ last' = Res("verifyEmail", u, vt, TRUE, OK, "email verified")
    /\ UNCHANGED <<now, refreshTokens, vtSeq, rotOK, req, bearer, admitted, applications,
                   vtKind>>

\* verificationService.resendVerificationToken / generatePasswordResetToken
StoreVerificationToken(u) ==
    [users EXCEPT ![u].verificationToken = GenerateToken,
                  ![u].verificationExpiresAt = now + VerifTtl]

\* login checking the password before the verification state
LoginResultPasswordFirst(email, password) ==
    LET u == FindUser(email) IN
    IF u = "none"
    THEN Res("login", email, NoToken, FALSE, UNAUTHORIZED, "invalid credentials")
    ELSE IF ~BcryptCompare(password, users[u].password)
    THEN Res("login", email, NoToken, FALSE, BAD_REQUEST, "invalid credentials")
    ELSE IF ~users[u].isEmailVerified
    THEN [Res("login", email, NoToken, TRUE, OK, "email verification required")
            EXCEPT !.requiresVerification = TRUE]
    ELSE [Res("login", email, NoToken, TRUE, OK, "user logged in")
            EXCEPT !.token = GenerateAccessToken(u),
                   !.refreshToken = GenerateRefreshToken(refreshTokens),
                   !.cookie = "set"]

\* login that refuses a deactivated account
LoginResultActiveOnly(email, password) ==
    LET u == FindUser(email) IN
    IF u = "none"
    THEN Res("login", email, NoToken, FALSE, UNAUTHORIZED, "invalid credentials")
    ELSE IF ~users[u].isEmailVerified
    THEN [Res("login", email, NoToken, TRUE, OK, "email verification required")
            EXCEPT !.requiresVerification = TRUE]
    ELSE IF ~BcryptCompare(password, users[u].password)
    THEN Res("login", email, NoToken, FALSE, BAD_REQUEST, "invalid credentials")
    ELSE IF ~users[u].isActive
    THEN Res("login", email, NoToken, FALSE, FORBIDDEN, "account deactivated")
    ELSE [Res("login", email, NoToken, TRUE, OK, "user logged in")
            EXCEPT !.token = GenerateAccessToken(u),
                   !.refreshToken = GenerateRefreshToken(refreshTokens),
                   !.cookie = "set"]

\* login(email, password): the outcome, as the service computes it
LoginResult(email, password) ==
    LET u == FindUser(email) IN
    IF u = "none"
    THEN Res("login", email, NoToken, FALSE, UNAUTHORIZED, "invalid credentials")
    ELSE IF ~users[u].isEmailVerified
    THEN [Res("login", email, NoToken, TRUE, OK, "email verification required")
            EXCEPT !.requiresVerification = TRUE]
    ELSE IF ~BcryptCompare(password, users[u].password)
    THEN Res("login", email, NoToken, FALSE, BAD_REQUEST, "invalid credentials")
    ELSE [Res("login", email, NoToken, TRUE, OK, "user logged in")
            EXCEPT !.token = GenerateAccessToken(u),
                   !.refreshToken = GenerateRefreshToken(refreshTokens),
                   !.cookie = "set"]

\* login that ends the user's other sessions when it opens a new one
LoginSingleSession(email, password) ==
    /\ LET u == FindUser(email)
           r == LoginResult(email, password)
       IN  /\ last' = r
           /\ IF r.requiresVerification
              THEN /\ vtSeq < MaxVerif
                   /\ users' = StoreVerificationToken(u)
                   /\ vtSeq' = vtSeq + 1
                   /\ vtKind' = Append(vtKind, "login")
                   /\ UNCHANGED refreshTokens
              ELSE IF r.ok
              THEN /\ Len(refreshTokens) < MaxTokens
                   /\ refreshTokens' = Store(RevokeAllRows(refreshTokens, u),
                                             r.refreshToken, u, now + RefreshTtl)
                   /\ UNCHANGED <<users, vtSeq, applications, vtKind>>
              ELSE UNCHANGED <<users, vtSeq, refreshTokens, applications, vtKind>>
    /\ UNCHANGED <<now, rotOK, req, bearer, admitted, applications>>

\* login: service + controller
Login(email, password) ==
    /\ LET u == FindUser(email)
           r == LoginResult(email, password)
       IN  /\ last' = r
           /\ IF r.requiresVerification
              THEN /\ vtSeq < MaxVerif
                   /\ users' = StoreVerificationToken(u)
                   /\ vtSeq' = vtSeq + 1
                   /\ vtKind' = Append(vtKind, "login")
                   /\ UNCHANGED refreshTokens
              ELSE IF r.ok
              THEN /\ Len(refreshTokens) < MaxTokens
                   /\ refreshTokens' = Store(refreshTokens, r.refreshToken, u,
                                             now + RefreshTtl)
                   /\ UNCHANGED <<users, vtSeq, applications, vtKind>>
              ELSE UNCHANGED <<users, vtSeq, refreshTokens, applications, vtKind>>
    /\ UNCHANGED <<now, rotOK, req, bearer, admitted, applications>>

\* refresh without the `if (!rotationResult.ok) return rotationResult` check
RefreshResultUnchecked(rows, secret) ==
    LET r == RotateResult(rows, secret) IN
    [r EXCEPT !.ok = TRUE, !.statusCode = OK,
              !.token = GenerateAccessToken(r.arg), !.cookie = "set"]

\* refresh that mints an access token whatever the rotation returned
RefreshComposeAlways(r) ==
    [r EXCEPT !.token = GenerateAccessToken(r.arg)]

\* refresh after the rotation returned r: the service result, and the cookie
\* the controller sets
RefreshCompose(r) ==
    IF ~r.ok THEN r
    ELSE [r EXCEPT !.token = GenerateAccessToken(r.arg), !.cookie = "set"]

RefreshResult(rows, secret) == RefreshCompose(RotateResult(rows, secret))

Refresh(secret) ==
    /\ RotateOutcome(refreshTokens, secret) = "rotated" => Len(refreshTokens) < MaxTokens
    /\ refreshTokens' = RotateLedger(refreshTokens, secret)
    /\ last' = RefreshResult(refreshTokens, secret)
    /\ rotOK' = IF RefreshResult(refreshTokens, secret).ok
                THEN [rotOK EXCEPT ![secret] = @ + 1] ELSE rotOK
    /\ UNCHANGED <<now, users, vtSeq, req, bearer, admitted, applications,
                   vtKind>>

\* refresh as concurrent requests run it: the controller reads the cookie and
\* calls the service ...
RefreshBegin(p, secret) ==
    /\ req[p].pc = "idle"
    /\ req' = [req EXCEPT ![p] =
                [IdleReq EXCEPT !.pc = "rotate", !.presented = secret,
                    !.wasActive = (RotateOutcome(refreshTokens, secret) = "rotated")]]
    /\ UNCHANGED <<now, users, refreshTokens, vtSeq, last, rotOK, bearer, admitted, applications,
                   vtKind>>

\* a rotation that is no transaction: it acts on the check made when the
\* request arrived and writes without checking again
RefreshRotateStale(p) ==
    /\ req[p].pc = "rotate"
    /\ LET secret == req[p].presented
           i == FindRowByHash(refreshTokens, secret)
           r == IF req[p].wasActive
                THEN [Res("refresh", refreshTokens[i].userId, secret, TRUE, OK,
                          "token refreshed")
                        EXCEPT !.refreshToken = GenerateRefreshToken(refreshTokens)]
                ELSE RotateResult(refreshTokens, secret)
       IN  /\ r.ok => Len(refreshTokens) < MaxTokens
           /\ refreshTokens' =
                IF req[p].wasActive
                THEN Store([refreshTokens EXCEPT ![i].revoked = TRUE,
                                ![i].replacedById = Len(refreshTokens) + 1],
                           GenerateRefreshToken(refreshTokens),
                           refreshTokens[i].userId, now + RefreshTtl)
                ELSE RotateLedger(refreshTokens, secret)
           /\ rotOK' = IF r.ok THEN [rotOK EXCEPT ![secret] = @ + 1] ELSE rotOK
           /\ req' = [req EXCEPT ![p].pc = "respond", ![p].rotation = r]
    /\ UNCHANGED <<now, users, vtSeq, last, bearer, admitted, applications,
                   vtKind>>

\* ... `await tokenService.rotateRefreshToken(refreshToken)`: one transaction ...
RefreshRotate(p) ==
    /\ req[p].pc = "rotate"
    /\ LET secret == req[p].presented
           r == RotateResult(refreshTokens, secret)
       IN  /\ r.ok => Len(refreshTokens) < MaxTokens
           /\ refreshTokens' = RotateLedger(refreshTokens, secret)
           /\ rotOK' = IF r.ok THEN [rotOK EXCEPT ![secret] = @ + 1] ELSE rotOK
           /\ req' = [req EXCEPT ![p].pc = "respond", ![p].rotation = r]
    /\ UNCHANGED <<now, users, vtSeq, last, bearer, admitted, applications,
                   vtKind>>

\* a rotation that marks the presented row rotated and then fails before the
\* successor row is inserted, with nothing rolled back
RefreshRotateTorn(p) ==
    /\ req[p].pc = "rotate"
    /\ LET secret == req[p].presented
           i == FindRowByHash(refreshTokens, secret)
       IN  /\ refreshTokens' =
                IF RotateOutcome(refreshTokens, secret) = "rotated"
                THEN [refreshTokens EXCEPT ![i].revoked = TRUE,
                                           ![i].replacedById = Len(refreshTokens) + 1]
                ELSE refreshTokens
           /\ req' = [req EXCEPT ![p].pc = "respond",
                        ![p].rotation = Res("refresh", "none", secret, FALSE,
                                            INTERNAL_SERVER_ERROR, "internal server error")]
    /\ UNCHANGED <<now, users, vtSeq, last, rotOK, bearer, admitted, applications,
                   vtKind>>

\* ... or the store fails inside the transaction: it rolls back, the error
\* reaches errorHandler ...
RefreshRotateAbort(p) ==
    /\ req[p].pc = "rotate"
    /\ req' = [req EXCEPT ![p].pc = "respond",
                 ![p].rotation = Res("refresh", "none", req[p].presented, FALSE,
                                     INTERNAL_SERVER_ERROR, "internal server error")]
    /\ UNCHANGED <<now, users, refreshTokens, vtSeq, last, rotOK, bearer, admitted, applications,
                   vtKind>>

\* ... and the access token is minted and the response sent.
RefreshRespond(p) ==
    /\ req[p].pc = "respond"
    /\ last' = RefreshCompose(req[p].rotation)
    /\ req' = [req EXCEPT ![p] = IdleReq]
    /\ UNCHANGED <<now, users, refreshTokens, vtSeq, rotOK, bearer, admitted, applications,
                   vtKind>>

\* logout without the `if (!refreshToken)` check
LogoutResultUnchecked(secret) == RevokeResult(secret)

\* logout(refreshToken): the service result
LogoutResult(secret) ==
    IF secret = NoToken
    THEN Res("logout", "none", secret, FALSE, BAD_REQUEST, "no token provided")
    ELSE RevokeResult(secret)

\* logout: service + controller (the cookie is always cleared)
Logout(secret) ==
    /\ refreshTokens' = IF secret = NoToken THEN refreshTokens
                        ELSE RevokeRow(refreshTokens, secret)
    /\ last' = [LogoutResult(secret) EXCEPT
                    !.cookie = "clear",
                    !.again = (last.op = "logout" /\ last.secret = secret)]
    /\ UNCHANGED <<now, users, vtSeq, rotOK, req, bearer, admitted, applications,
                   vtKind>>

\* logoutAllDevices that revokes the rows of every user
LogoutAllDevicesEveryone(u) ==
    /\ users[u].exists
    /\ refreshTokens' = [i \in DOMAIN refreshTokens |->
                            [refreshTokens[i] EXCEPT !.revoked = TRUE]]
    /\ last' = [Res("logoutAll", u, NoToken, TRUE, OK, "logged out from all devices")
                    EXCEPT !.cookie = "clear"]
    /\ UNCHANGED <<now, users, vtSeq, rotOK, req, bearer, admitted, applications,
                   vtKind>>

\* logoutAllDevices that deletes the user's rows instead of revoking them
LogoutAllDevicesDeleting(u) ==
    /\ users[u].exists
    /\ refreshTokens' = SelectSeq(refreshTokens, LAMBDA row : row.userId # u)
    /\ last' = [Res("logoutAll", u, NoToken, TRUE, OK, "logged out from all devices")
                    EXCEPT !.cookie = "clear"]
    /\ UNCHANGED <<now, users, vtSeq, rotOK, req, bearer, admitted, applications,
                   vtKind>>

\* logoutAllDevices(userId) for the authenticated user
LogoutAllDevices(u) ==
    /\ users[u].exists
    /\ refreshTokens' = RevokeAllRows(refreshTokens, u)
    /\ last' = [Res("logoutAll", u, NoToken, TRUE, OK, "logged out from all devices")
                    EXCEPT !.cookie = "clear"]
    /\ UNCHANGED <<now, users, vtSeq, rotOK, req, bearer, admitted, applications,
                   vtKind>>

\* logoutAllDevices when revokeAllRefreshTokens throws (the store fails): the
\* catch branch answers "logout failed"; the controller has cleared the cookie
LogoutAllDevicesFail(u) ==
    /\ users[u].exists
    /\ last' = [Res("logoutAll", u, NoToken, FALSE, INTERNAL_SERVER_ERROR, "logout failed")
                    EXCEPT !.cookie = "clear"]
    /\ UNCHANGED <<now, users, refreshTokens, vtSeq, rotOK, req, bearer, admitted, applications,
                   vtKind>>

\* requestPasswordReset that tells the caller when no account matches
RequestPasswordResetRevealing(email) ==
    /\ LET u == FindUser(email) IN
       IF u = "none"
       THEN /\ last' = Res("requestPasswordReset", email, NoToken, FALSE, NOT_FOUND,
                           "user not found")
            /\ UNCHANGED <<users, vtSeq, applications, vtKind>>
       ELSE /\ vtSeq < MaxVerif
            /\ users' = StoreVerificationToken(u)
            /\ vtSeq' = vtSeq + 1
            /\ vtKind' = Append(vtKind, "requestPasswordReset")
            /\ last' = Res("requestPasswordReset", email, GenerateToken, TRUE, OK,
                           "if an account exists, a password reset email has been sent")
    /\ UNCHANGED <<now, refreshTokens, rotOK, req, bearer, admitted,
                   applications>>

\* requestPasswordReset, the `data` of the response: the service's payload
\* (`env.NODE_ENV !== "production" ? { resetToken } : null`, none at all for
\* an unknown e-mail) after the controller's `result.payload ?? null`
RequestPasswordResetData(email, nodeEnv) ==
    IF FindUser(email) = "none" THEN Null
    ELSE IF nodeEnv # "production" THEN GenerateToken
    ELSE Null

\* requestPasswordReset(email)
RequestPasswordReset(email) ==
    /\ LET u == FindUser(email) IN
       IF u = "none"
       THEN /\ last' = Res("requestPasswordReset", email, NoToken, TRUE, OK,
                           "if an account exists, a password reset email has been sent")
            /\ UNCHANGED <<users, vtSeq, applications, vtKind>>
       ELSE /\ vtSeq < MaxVerif
            /\ users' = StoreVerificationToken(u)
            /\ vtSeq' = vtSeq + 1
            /\ vtKind' = Append(vtKind, "requestPasswordReset")
            /\ last' = Res("requestPasswordReset", email, GenerateToken, TRUE, OK,
                           "if an account exists, a password reset email has been sent")
    /\ UNCHANGED <<now, refreshTokens, rotOK, req, bearer, admitted,
                   applications>>

\* resetPassword that refuses the token of an account still waiting for
\* its e-mail verification
ResetPasswordVerifiedOnly(vt, newPassword, oldPassword) ==
    /\ LET u == FindUserByVerificationToken(vt) IN
       IF u = "none"
       THEN /\ last' = Res("resetPassword", "none", vt, FALSE, BAD_REQUEST,
                           "invalid or expired reset token")
            /\ UNCHANGED <<users, refreshTokens>>
       ELSE IF users[u].verificationExpiresAt = Null
               \/ IsPast(users[u].verificationExpiresAt)
       THEN /\ users' = ClearVerification(u)
            /\ last' = Res("resetPassword", u, vt, FALSE, BAD_REQUEST,
                           "reset token has expired")
            /\ UNCHANGED refreshTokens
       ELSE IF ~users[u].isEmailVerified
               \/ (/\ oldPassword # "none"
                   /\ ~BcryptCompare(oldPassword, users[u].password))
       THEN /\ last' = Res("resetPassword", u, vt, FALSE, BAD_REQUEST,
                           "invalid old password")
            /\ UNCHANGED <<users, refreshTokens>>
       ELSE /\ users' = [ClearVerification(u) EXCEPT
                            ![u].password = BcryptHash(newPassword),
                            ![u].isEmailVerified = TRUE]
            /\ refreshTokens' = RevokeAllRows(refreshTokens, u)
            /\ last' = [Res("resetPassword", u, vt, TRUE, OK, "password reset successful")
                            EXCEPT !.cookie = "clear"]
    /\ UNCHANGED <<now, vtSeq, rotOK, req, bearer, admitted, applications,
                   vtKind>>

\* resetPassword({ verificationToken, newPassword, oldPassword })
ResetPassword(vt, newPassword, oldPassword) ==
    /\ LET u == FindUserByVerificationToken(vt) IN
       IF u = "none"
       THEN /\ last' = Res("resetPassword", "none", vt, FALSE, BAD_REQUEST,
                           "invalid or expired reset token")
            /\ UNCHANGED <<users, refreshTokens, applications>>
       ELSE IF users[u].verificationExpiresAt = Null
               \/ IsPast(users[u].verificationExpiresAt)
       THEN /\ users' = ClearVerification(u)
            /\ last' = Res("resetPassword", u, vt, FALSE, BAD_REQUEST,
                           "reset token has expired")
            /\ UNCHANGED refreshTokens
       ELSE IF /\ users[u].isEmailVerified
               /\ oldPassword # "none"
               /\ ~BcryptCompare(oldPassword, users[u].password)
       THEN /\ last' = Res("resetPassword", u, vt, FALSE, BAD_REQUEST,
                           "invalid old password")
            /\ UNCHANGED <<users, refreshTokens, applications>>
       ELSE /\ users' = [ClearVerification(u) EXCEPT
                            ![u].password = BcryptHash(newPassword),
                            ![u].isEmailVerified = TRUE]
            /\ refreshTokens' = RevokeAllRows(refreshTokens, u)
            /\ last' = [Res("resetPassword", u, vt, TRUE, OK, "password reset successful")
                            EXCEPT !.cookie = "clear"]
    /\ UNCHANGED <<now, vtSeq, rotOK, req, bearer, admitted, applications,
                   vtKind>>

----------------------------------------------------------------------------
(* requireAuth (the Auth Gate) and the writes that change what it reads *)

\* An Authorization header is a sequence of atoms: the space character " ",
\* words without a space ("Bearer", "Basic", "x") and "<jwt>", the text of
\* the access token the request carries. <<>> is a request without the header.
Headers ==
    { <<>>,
      <<"Bearer">>,
      <<"Bearer", " ">>,
      <<"Bearer", " ", "<jwt>">>,
      <<"Bearer", " ", " ", "<jwt>">>,
      <<"Bearer", " ", "<jwt>", " ", "x">>,
      <<"Bearer", " ", "x">>,
      <<"Bearer", "<jwt>">>,
      <<"Basic", " ", "<jwt>">>,
      <<" ", "<jwt>">> }

\* authHeader.split(" "): the pieces between the spaces, empty pieces kept
RECURSIVE SplitFrom(_, _, _)
SplitFrom(h, i, piece) ==
    IF i > Len(h) THEN <<piece>>
    ELSE IF h[i] = " " THEN <<piece>> \o SplitFrom(h, i + 1, <<>>)
    ELSE SplitFrom(h, i + 1, Append(piece, h[i]))

Split(h) == SplitFrom(h, 1, <<>>)

\* const [scheme, token] = authHeader.split(" "); "undefined" when the split
\* has no second piece
Undefined == <<"undefined">>
SchemeOf(h) == Split(h)[1]
TokenOf(h) == IF Len(Split(h)) >= 2 THEN Split(h)[2] ELSE Undefined

\* !token: undefined or the empty string
Falsy(piece) == piece = Undefined \/ piece = <<>>

\* what verifyAccessToken returns for a token it does not accept
InvalidPayload == [id |-> "invalid"]

\* verifyAccessToken that checks the signature only
VerifyAccessTokenNoExpiry(piece, jwt) ==
    IF piece = <<"<jwt>">> /\ jwt.sig
    THEN [id |-> jwt.id]
    ELSE InvalidPayload

\* verifyAccessToken that also wants the user to have an open session
VerifyAccessTokenStateful(piece, jwt) ==
    IF /\ piece = <<"<jwt>">> /\ jwt.sig /\ ~(now >= jwt.exp)
       /\ \E i \in DOMAIN refreshTokens :
             refreshTokens[i].userId = jwt.id /\ ~refreshTokens[i].revoked
    THEN [id |-> jwt.id]
    ELSE InvalidPayload

\* token.service verifyAccessToken: the payload of a token whose text is a
\* JWT with a good signature and an expiry not yet passed
VerifyAccessToken(piece, jwt) ==
    IF piece = <<"<jwt>">> /\ jwt.sig /\ ~(now >= jwt.exp)
    THEN [id |-> jwt.id]
    ELSE InvalidPayload

\* prisma.user.findUnique({ where: { id } })
FindUnique(id) == IF id \in UserIds /\ users[id].exists THEN id ELSE "none"

Fail(header, jwt, code, msg) ==
    [Res("requireAuth", "none", NoToken, FALSE, code, msg)
        EXCEPT !.header = header, !.token = jwt]

\* requireAuth without the role-profile checks
RequireAuthResultNoInvariant(header, jwt) ==
    IF header = <<>>
    THEN Fail(header, jwt, UNAUTHORIZED, "authorization header missing")
    ELSE IF SchemeOf(header) # <<"Bearer">> \/ Falsy(TokenOf(header))
    THEN Fail(header, jwt, BAD_REQUEST, "invalid auth format")
    ELSE LET payload == VerifyAccessToken(TokenOf(header), jwt) IN
    IF payload = InvalidPayload
    THEN Fail(header, jwt, UNAUTHORIZED, "invalid or expired token")
    ELSE LET u == FindUnique(payload.id) IN
    IF u = "none"
    THEN Fail(header, jwt, UNAUTHORIZED, "user not found")
    ELSE IF ~users[u].isActive
    THEN Fail(header, jwt, FORBIDDEN, "account deactivated")
    ELSE [Res("requireAuth", "none", NoToken, TRUE, OK, "")
            EXCEPT !.header = header, !.token = jwt, !.nextCalls = 1,
                   !.reqUser = [id |-> u, role |-> users[u].role]]

\* requireAuth verifying the token before it looks at the scheme
RequireAuthResultTokenFirst(header, jwt) ==
    IF header = <<>>
    THEN Fail(header, jwt, UNAUTHORIZED, "authorization header missing")
    ELSE IF VerifyAccessToken(TokenOf(header), jwt) = InvalidPayload
    THEN Fail(header, jwt, UNAUTHORIZED, "invalid or expired token")
    ELSE IF SchemeOf(header) # <<"Bearer">> \/ Falsy(TokenOf(header))
    THEN Fail(header, jwt, BAD_REQUEST, "invalid auth format")
    ELSE RequireAuthResultNoInvariant(header, jwt)

\* requireAuth(req, res, next): the response, or next() with req.user set
RequireAuthResult(header, jwt) ==
    IF header = <<>>
    THEN Fail(header, jwt, UNAUTHORIZED, "authorization header missing")
    ELSE IF SchemeOf(header) # <<"Bearer">> \/ Falsy(TokenOf(header))
    THEN Fail(header, jwt, BAD_REQUEST, "invalid auth format")
    ELSE LET payload == VerifyAccessToken(TokenOf(header), jwt) IN
    IF payload = InvalidPayload
    THEN Fail(header, jwt, UNAUTHORIZED, "invalid or expired token")
    ELSE LET u == FindUnique(payload.id) IN
    IF u = "none"
    THEN Fail(header, jwt, UNAUTHORIZED, "user not found")
    ELSE IF ~users[u].isActive
    THEN Fail(header, jwt, FORBIDDEN, "account deactivated")
    ELSE IF users[u].role = "TALENT"
            /\ (~users[u].talentProfile \/ users[u].employerProfile)
    THEN Fail(header, jwt, FORBIDDEN, "account misconfigured")
    ELSE IF users[u].role = "EMPLOYER"
            /\ (~users[u].employerProfile \/ users[u].talentProfile)
    THEN Fail(header, jwt, FORBIDDEN, "account misconfigured")
    ELSE IF users[u].role = "MODERATOR"
            /\ (users[u].talentProfile \/ users[u].employerProfile)
    THEN Fail(header, jwt, FORBIDDEN, "account misconfigured")
    ELSE [Res("requireAuth", "none", NoToken, TRUE, OK, "")
            EXCEPT !.header = header, !.token = jwt, !.nextCalls = 1,
                   !.reqUser = [id |-> u, role |-> users[u].role]]

\* requireAuth answering from what it decided for the token before
RequireAuthCached(header, forged) ==
    /\ LET jwt == IF forged THEN [bearer EXCEPT !.sig = FALSE] ELSE bearer
           r == RequireAuthResult(header, jwt)
       IN  /\ last' = IF admitted /\ ~forged /\ r.statusCode # BAD_REQUEST
                         /\ header # <<>> /\ FindUnique(jwt.id) # "none"
                      THEN [Res("requireAuth", "none", NoToken, TRUE, OK, "")
                               EXCEPT !.header = header, !.token = jwt,
                                      !.nextCalls = 1,
                                      !.reqUser = [id |-> jwt.id,
                                                   role |-> users[jwt.id].role]]
                      ELSE r
           /\ admitted' = (admitted \/ (r.nextCalls = 1 /\ ~forged))
    /\ UNCHANGED <<now, users, refreshTokens, vtSeq, rotOK, req, bearer, applications,
                   vtKind>>

\* One request through requireAuth. The request carries the header and, in
\* the place of "<jwt>", the token the client holds or a copy of it whose
\* signature does not verify.
RequireAuth(header, forged) ==
    /\ LET jwt == IF forged THEN [bearer EXCEPT !.sig = FALSE] ELSE bearer
           r == RequireAuthResult(header, jwt)
       IN  /\ last' = r
           /\ admitted' = (admitted \/ (r.nextCalls = 1 /\ ~forged))
    /\ UNCHANGED <<now, users, refreshTokens, vtSeq, rotOK, req, bearer, applications,
                   vtKind>>

\* login, "Create tokens": the client receives an access token for the
\* account it logged in to
IssueAccessToken(u) ==
    /\ users[u].exists /\ users[u].isEmailVerified
    /\ bearer' = GenerateAccessToken(u)
    /\ admitted' = FALSE
    /\ last' = [Res("issueAccessToken", EmailOf(u), NoToken, TRUE, OK, "user logged in")
                  EXCEPT !.token = GenerateAccessToken(u)]
    /\ UNCHANGED <<now, users, refreshTokens, vtSeq, rotOK, req,
                   applications, vtKind>>

\* moderation: PATCH /moderation/users/:userId/active
SetUserActive(u, isActive) ==
    /\ IF ~users[u].exists
       THEN /\ last' = Res("setUserActive", u, NoToken, FALSE, NOT_FOUND, "user not found")
            /\ UNCHANGED users
       ELSE IF users[u].role = "MODERATOR"
       THEN /\ last' = Res("setUserActive", u, NoToken, FALSE, FORBIDDEN,
                           "moderator accounts cannot be deactivated")
            /\ UNCHANGED users
       ELSE /\ users' = [users EXCEPT ![u].isActive = isActive]
            /\ last' = Res("setUserActive", u, NoToken, TRUE, OK, "user updated")
    /\ UNCHANGED <<now, refreshTokens, vtSeq, rotOK, req, bearer, admitted, applications,
                   vtKind>>

\* deleteUser without the role check
DeleteUserAnyRole(u) ==
    /\ IF ~users[u].exists
       THEN /\ last' = Res("deleteUser", u, NoToken, FALSE, NOT_FOUND, "user not found")
            /\ UNCHANGED users
       ELSE /\ users' = [users EXCEPT ![u] = AbsentUser]
            /\ last' = Res("deleteUser", u, NoToken, TRUE, OK, "user deleted")
    /\ UNCHANGED <<now, refreshTokens, vtSeq, rotOK, req, bearer, admitted,
                   applications, vtKind>>

\* deleteUser(userId); the profiles go with the user (onDelete rules)
DeleteUser(u) ==
    /\ IF ~users[u].exists
       THEN /\ last' = Res("deleteUser", u, NoToken, FALSE, NOT_FOUND, "user not found")
            /\ UNCHANGED users
       ELSE IF users[u].role = "MODERATOR"
       THEN /\ last' = Res("deleteUser", u, NoToken, FALSE, FORBIDDEN,
                           "moderator accounts cannot be deleted")
            /\ UNCHANGED users
       ELSE /\ users' = [users EXCEPT ![u] = AbsentUser]
            /\ last' = Res("deleteUser", u, NoToken, TRUE, OK, "user deleted")
    /\ UNCHANGED <<now, refreshTokens, vtSeq, rotOK, req, bearer, admitted, applications,
                   vtKind>>

\* A write to the database that bypasses the services (as the seeding of the
\* moderator does): a profile row of an existing user is inserted or removed.
PrismaWriteProfile(u, kind, present) ==
    /\ users[u].exists
    /\ users' = IF kind = "talent"
                THEN [users EXCEPT ![u].talentProfile = present]
                ELSE [users EXCEPT ![u].employerProfile = present]
    /\ last' = Res("prismaWrite", u, NoToken, TRUE, OK, kind)
    /\ UNCHANGED <<now, refreshTokens, vtSeq, rotOK, req, bearer, admitted, applications,
                   vtKind>>

----------------------------------------------------------------------------
(* resetPassword, statement by statement *)

\* resetPassword up to `prisma.$transaction`: the token lookup, the expiry
\* check, the old-password check and the hashing. A request that passes opens
\* the transaction.
ResetBegin(p, vt, newPassword, oldPassword) ==
    /\ req[p].pc = "idle"
    /\ LET u == FindUserByVerificationToken(vt) IN
       IF u = "none"
       THEN /\ last' = Res("resetPassword", "none", vt, FALSE, BAD_REQUEST,
                           "invalid or expired reset token")
            /\ UNCHANGED <<users, req, applications>>
       ELSE IF users[u].verificationExpiresAt = Null
               \/ IsPast(users[u].verificationExpiresAt)
       THEN /\ users' = ClearVerification(u)
            /\ last' = Res("resetPassword", u, vt, FALSE, BAD_REQUEST,
                           "reset token has expired")
            /\ UNCHANGED req
       ELSE IF /\ users[u].isEmailVerified
               /\ oldPassword # "none"
               /\ ~BcryptCompare(oldPassword, users[u].password)
       THEN /\ last' = Res("resetPassword", u, vt, FALSE, BAD_REQUEST,
                           "invalid old password")
            /\ UNCHANGED <<users, req, applications>>
       ELSE /\ req' = [req EXCEPT ![p] =
                        [IdleReq EXCEPT !.pc = "tx", !.presented = vt, !.user = u,
                                        !.newPassword = newPassword]]
            /\ last' = Res("resetPassword.begin", u, vt, TRUE, OK, "")
            /\ UNCHANGED users
    /\ UNCHANGED <<now, refreshTokens, vtSeq, rotOK, bearer, admitted, applications,
                   vtKind>>

\* tx.user.update written straight to the table, outside any transaction
ResetTxUserUpdateAutocommit(p) ==
    /\ req[p].pc = "tx"
    /\ "user.update" \notin req[p].writes
    /\ req' = [req EXCEPT ![p].writes = @ \cup {"user.update"}]
    /\ users' = [ClearVerification(req[p].user) EXCEPT
                    ![req[p].user].password = BcryptHash(req[p].newPassword),
                    ![req[p].user].isEmailVerified = TRUE]
    /\ UNCHANGED <<now, refreshTokens, vtSeq, last, rotOK, bearer, admitted, applications,
                   vtKind>>

\* tx.user.update({ password, isEmailVerified, verificationToken: null, ... })
ResetTxUserUpdate(p) ==
    /\ req[p].pc = "tx"
    /\ "user.update" \notin req[p].writes
    /\ req' = [req EXCEPT ![p].writes = @ \cup {"user.update"}]
    /\ UNCHANGED <<now, users, refreshTokens, vtSeq, last, rotOK, bearer, admitted, applications,
                   vtKind>>

\* tx.refreshToken.updateMany({ where: { userId, revoked: false }, ... })
ResetTxRevoke(p) ==
    /\ req[p].pc = "tx"
    /\ "user.update" \in req[p].writes
    /\ "refreshToken.updateMany" \notin req[p].writes
    /\ req' = [req EXCEPT ![p].writes = @ \cup {"refreshToken.updateMany"}]
    /\ UNCHANGED <<now, users, refreshTokens, vtSeq, last, rotOK, bearer, admitted, applications,
                   vtKind>>

\* the transaction commits: both statements take effect together; the
\* service returns and the controller clears the cookie
ResetCommit(p) ==
    /\ req[p].pc = "tx"
    /\ req[p].writes = {"user.update", "refreshToken.updateMany"}
    /\ users' = [ClearVerification(req[p].user) EXCEPT
                    ![req[p].user].password = BcryptHash(req[p].newPassword),
                    ![req[p].user].isEmailVerified = TRUE]
    /\ refreshTokens' = RevokeAllRows(refreshTokens, req[p].user)
    /\ last' = [Res("resetPassword", req[p].user, req[p].presented, TRUE, OK,
                    "password reset successful") EXCEPT !.cookie = "clear"]
    /\ req' = [req EXCEPT ![p] = IdleReq]
    /\ UNCHANGED <<now, vtSeq, rotOK, bearer, admitted, applications, vtKind>>

\* a statement or the commit fails: the transaction rolls back, the error
\* reaches errorHandler
ResetAbort(p) ==
    /\ req[p].pc = "tx"
    /\ last' = Res("resetPassword", req[p].user, req[p].presented, FALSE,
                   INTERNAL_SERVER_ERROR, "internal server error")
    /\ req' = [req EXCEPT ![p] = IdleReq]
    /\ UNCHANGED <<now, users, refreshTokens, vtSeq, rotOK, bearer, admitted, applications,
                   vtKind>>

\* the clock advances
Tick ==
    /\ now < MaxTime
    /\ now' = now + 1
    /\ last' = Res("tick", "none", NoToken, TRUE, OK, "")
    /\ UNCHANGED <<users, refreshTokens, vtSeq, rotOK, req, bearer, admitted, applications,
                   vtKind>>

\* Secrets and tokens a client can present: every one issued so far, one that
\* was never issued, and (for the cookie) none at all.
Presentable == 0..Len(refreshTokens) \cup {UnknownSecret}
PresentableVt == 1..vtSeq \cup {MaxVerif + 1}

Next ==
    \/ \E e \in Emails, p \in Passwords : Login(e, p)
    \/ \E s \in Presentable : Refresh(s)
    \/ \E s \in Presentable : Logout(s)
    \/ \E u \in UserIds : LogoutAllDevices(u)
    \/ Tick

Spec == Init /\ [][Next]_vars

\* Concurrent refresh requests: each request is three steps that interleave
\* with the steps of the other requests and with logins. The requests
\* present secrets that were issued.
NextRace ==
    \/ \E u \in UserIds : Login(EmailOf(u), "pw1")
    \/ \E p \in Procs, s \in 1..Len(refreshTokens) : RefreshBegin(p, s)
    \/ \E p \in Procs : RefreshRotate(p)
    \/ \E p \in Procs : RefreshRespond(p)

SpecRace == Init /\ [][NextRace]_vars

\* The Auth Gate: requests through requireAuth, interleaved with token
\* issuance, moderation, account deletion, direct writes and the clock. The
\* first account is a talent or an employer, the second the moderator.
InitGate ==
    /\ users \in {[u \in UserIds |->
                     IF u = "u1" THEN VerifiedUser(role) ELSE SeededModerator]
                  : role \in {"TALENT", "EMPLOYER"}}
    /\ InitRest

NextGate ==
    \/ \E h \in Headers, forged \in BOOLEAN : RequireAuth(h, forged)
    \/ \E u \in UserIds : IssueAccessToken(u)
    \/ \E u \in UserIds, a \in BOOLEAN : SetUserActive(u, a)
    \/ \E u \in UserIds : DeleteUser(u)
    \/ \E u \in UserIds, k \in {"talent", "employer"}, b \in BOOLEAN :
          PrismaWriteProfile(u, k, b)
    \/ Tick

SpecGate == InitGate /\ [][NextGate]_vars

\* Accounts: registration, e-mail verification, login and password reset
\* over an empty User table next to the seeded moderator. The requests name
\* the address that registers or an address without an account.
AcctEmails == {"a@x", "nobody@x"}

InitAcct ==
    /\ users = [u \in UserIds |->
                    IF u = "u1" THEN AbsentUser ELSE SeededModerator]
    /\ InitRest

NextAcct ==
    \/ \E p \in Passwords, role \in {"TALENT", "EMPLOYER", "MODERATOR"} :
          Register("a@x", p, role)
    \/ \E vt \in PresentableVt : VerifyEmail(vt)
    \/ \E e \in AcctEmails, p \in Passwords : Login(e, p)
    \/ \E e \in AcctEmails : RequestPasswordReset(e)
    \/ \E vt \in PresentableVt, np \in Passwords, op \in Passwords \cup {"none"} :
          ResetPassword(vt, np, op)
    \/ Tick

SpecAcct == InitAcct /\ [][NextAcct]_vars

\* Password reset next to open sessions: logins of both accounts, reset
\* requests for the first, and one resetPassword request at a time running
\* statement by statement, its transaction committing or rolling back.
NextReset ==
    \/ \E u \in UserIds : Login(EmailOf(u), "pw1")
    \/ RequestPasswordReset("a@x")
    \/ \E vt \in PresentableVt, np \in Passwords, op \in Passwords \cup {"none"} :
          ResetBegin("r1", vt, np, op)
    \/ ResetTxUserUpdate("r1")
    \/ ResetTxRevoke("r1")
    \/ ResetCommit("r1")
    \/ ResetAbort("r1")
    \/ Tick

SpecReset == Init /\ [][NextReset]_vars

\* Every operation that touches the ledger or the verification fields, for
\* one account: its sessions are opened, rotated and closed, its password is
\* reset, e-mail tokens are presented, and the clock advances.
NextSessions ==
    \/ Len(refreshTokens) < MaxRows /\ Login("a@x", "pw1")
    \/ \E s \in 1..Len(refreshTokens) \cup {UnknownSecret} :
          /\ RotateOutcome(refreshTokens, s) = "rotated" => Len(refreshTokens) < MaxRows
          /\ Refresh(s)
    \/ \E s \in 1..Len(refreshTokens) : Logout(s)
    \/ LogoutAllDevices("u1")
    \/ RequestPasswordReset("a@x")
    \/ \E vt \in PresentableVt : ResetPassword(vt, "pw1", "none")
    \/ \E vt \in PresentableVt : VerifyEmail(vt)
    \/ Tick

SpecSessions == Init /\ [][NextSessions]_vars

\* Ledger transactions under failure, for one account: refresh requests whose
\* rotation commits or rolls back, logoutAllDevices with a store that works
\* or fails, and resetPassword statement by statement, next to logins.
NextTx ==
    \/ Len(refreshTokens) < MaxRows /\ Login("a@x", "pw1")
    \/ \E s \in 1..Len(refreshTokens) : RefreshBegin("r1", s)
    \/ /\ RotateOutcome(refreshTokens, req["r1"].presented) = "rotated"
              => Len(refreshTokens) < MaxRows
       /\ RefreshRotate("r1")
    \/ RefreshRotateAbort("r1")
    \/ RefreshRespond("r1")
    \/ LogoutAllDevices("u1")
    \/ LogoutAllDevicesFail("u1")
    \/ RequestPasswordReset("a@x")
    \/ \E vt \in PresentableVt : ResetBegin("r2", vt, "pw2", "none")
    \/ ResetTxUserUpdate("r2")
    \/ ResetTxRevoke("r2")
    \/ ResetCommit("r2")
    \/ ResetAbort("r2")

SpecTx == Init /\ [][NextTx]_vars

----------------------------------------------------------------------------
(* Claims about the refresh-token ledger, checked under Spec *)

\* The row a secret was stored in (0: none), and the secret a row was stored for
RowOf(rows, secret) ==
    IF \E i \in DOMAIN rows : rows[i].token = <<"sha256", secret>>
    THEN CHOOSE i \in DOMAIN rows : rows[i].token = <<"sha256", secret>>
    ELSE 0
Rotatable(rows, i, t) ==
    ~rows[i].revoked /\ rows[i].replacedById = Null /\ ~(t > rows[i].expiresAt)

\* C1: a refresh token is usable exactly once: over any sequence of
\* operations at most one refresh(T) succeeds for each secret T, so every
\* refresh(T) after a successful one fails.
C1_RefreshAtMostOnce == \A s \in DOMAIN rotOK : rotOK[s] <= 1

\* a secret was refreshed successfully and a later refresh of it has failed
C1_Witness ==
    /\ last.op = "refresh" /\ ~last.ok
    /\ rotOK[last.secret] = 1

\* C2: refresh with an already rotated or revoked token fails, and afterwards
\* every row of the owning user is revoked (the successor of the replayed
\* token and tokens of other logins included) and none can be rotated.
C2_ReplayRevokesAll ==
    [][ \A i \in DOMAIN refreshTokens :
          (last'.op = "refresh" /\ RowOf(refreshTokens, last'.secret) = i
              /\ refreshTokens[i].revoked)
          => /\ ~last'.ok
             /\ last'.refreshToken = NoToken /\ last'.token = NoAccess
             /\ Len(refreshTokens') = Len(refreshTokens)
             /\ \A j \in DOMAIN refreshTokens' :
                    refreshTokens'[j].userId = refreshTokens[i].userId
                    => /\ refreshTokens'[j].revoked
                       /\ ~Rotatable(refreshTokens', j, now')
      ]_vars

\* S1 was rotated into S2 and replayed; S2 and the token S3 of another login
\* of the same user are revoked
C2_Witness ==
    /\ last.op = "refresh" /\ ~last.ok
    /\ last.message = "refresh token reuse detected"
    /\ LET i == RowOf(refreshTokens, last.secret) IN
       /\ i # 0
       /\ refreshTokens[i].replacedById # Null
       /\ refreshTokens[refreshTokens[i].replacedById].revoked
       /\ \E k \in DOMAIN refreshTokens :
            /\ k # i /\ k # refreshTokens[i].replacedById
            /\ refreshTokens[k].userId = refreshTokens[i].userId
            /\ refreshTokens[k].revoked
            /\ \A j \in DOMAIN refreshTokens : refreshTokens[j].replacedById # k

\* C4: a row whose expiresAt is before the clock is never rotated, even if
\* it is neither revoked nor rotated: refresh with it fails, returns no
\* refresh secret and no access token, stores no row and marks it revoked.
C4_ExpiredNeverRotates ==
    [][ \A i \in DOMAIN refreshTokens :
          (last'.op = "refresh" /\ RowOf(refreshTokens, last'.secret) = i
              /\ ~refreshTokens[i].revoked
              /\ refreshTokens[i].replacedById = Null
              /\ now > refreshTokens[i].expiresAt)
          => /\ ~last'.ok
             /\ last'.refreshToken = NoToken /\ last'.token = NoAccess
             /\ last'.cookie # "set"
             /\ Len(refreshTokens') = Len(refreshTokens)
             /\ refreshTokens'[i].revoked
             /\ refreshTokens'[i].replacedById = Null
      ]_vars

\* an expired, otherwise active token was presented and is now revoked
C4_Witness ==
    /\ last.op = "refresh" /\ ~last.ok
    /\ LET i == RowOf(refreshTokens, last.secret) IN
       /\ i # 0
       /\ now > refreshTokens[i].expiresAt
       /\ refreshTokens[i].revoked
       /\ refreshTokens[i].replacedById = Null
       /\ \A j \in DOMAIN refreshTokens :
            j # i /\ refreshTokens[j].userId = refreshTokens[i].userId
            => ~refreshTokens[j].revoked

\* C5 as claimed: logout reports success for a token in any state, an absent
\* one included.
C5_LogoutAlwaysSucceeds == last.op = "logout" => last.ok

\* C5 as amended: logout(T) for a presented secret T in any state (active,
\* rotated, revoked, expired, unknown) reports success, leaves T's row
\* revoked, and when repeated changes no row; with no token presented it
\* answers 400 "no token provided" and changes no row.
C5_LogoutIdempotent ==
    [][ last'.op = "logout" =>
          IF last'.secret = NoToken
          THEN /\ ~last'.ok /\ last'.statusCode = BAD_REQUEST
               /\ refreshTokens' = refreshTokens
          ELSE /\ last'.ok /\ last'.statusCode = OK
               /\ Len(refreshTokens') = Len(refreshTokens)
               /\ \A i \in DOMAIN refreshTokens :
                    IF RowOf(refreshTokens, last'.secret) = i
                    THEN refreshTokens'[i] = [refreshTokens[i] EXCEPT !.revoked = TRUE]
                    ELSE refreshTokens'[i] = refreshTokens[i]
               /\ last'.again => (last.ok /\ refreshTokens' = refreshTokens)
      ]_vars

\* logout was called twice in a row with a token that was active before the
\* first call
C5_Witness ==
    /\ last.op = "logout" /\ last.again /\ last.ok
    /\ RowOf(refreshTokens, last.secret) # 0
    /\ refreshTokens[RowOf(refreshTokens, last.secret)].replacedById = Null

----------------------------------------------------------------------------
(* Claims about concurrent requests, checked under SpecRace *)

\* C3: rotation is atomic under concurrency: of the refresh calls that
\* present one refresh token, however they interleave, at most one gets a
\* new secret; no token ever has two successors.
C3_OneSuccessorPerToken ==
    /\ \A s \in DOMAIN rotOK : rotOK[s] <= 1
    /\ \A p, q \in Procs :
          (p # q /\ req[p].pc = "respond" /\ req[q].pc = "respond"
               /\ req[p].presented = req[q].presented)
          => ~(req[p].rotation.ok /\ req[q].rotation.ok)
    /\ \A i, j \in DOMAIN refreshTokens :
          (i # j /\ refreshTokens[i].replacedById # Null)
          => refreshTokens[i].replacedById # refreshTokens[j].replacedById

\* two requests arrived with the same still-active token; both rotations
\* ran; one has a new secret and the other failed
C3_Witness ==
    \E p, q \in Procs :
        /\ p # q
        /\ req[p].pc = "respond" /\ req[q].pc = "respond"
        /\ req[p].presented = req[q].presented
        /\ req[p].wasActive /\ req[q].wasActive
        /\ req[p].rotation.ok /\ ~req[q].rotation.ok

----------------------------------------------------------------------------
(* The Auth Gate (SpecGate) *)

\* the role-profile invariant of a stored user is violated
InvariantViolated(row) ==
    \/ row.role = "TALENT" /\ (~row.talentProfile \/ row.employerProfile)
    \/ row.role = "EMPLOYER" /\ (~row.employerProfile \/ row.talentProfile)
    \/ row.role = "MODERATOR" /\ (row.talentProfile \/ row.employerProfile)

\* the request r carried "Bearer <token>" with an access token that verifies
CarriesValidToken(r) ==
    /\ r.op = "requireAuth"
    /\ r.header # <<>>
    /\ SchemeOf(r.header) = <<"Bearer">>
    /\ TokenOf(r.header) = <<"<jwt>">>
    /\ r.token.sig
    /\ now < r.token.exp

Rejected(r, code) ==
    /\ ~r.ok
    /\ r.statusCode = code
    /\ r.nextCalls = 0
    /\ r.reqUser = NoReqUser

\* C6: a request through requireAuth that carries a valid access token of a
\* stored user whose role and profiles violate the role-profile invariant is
\* answered 403; next() is not called and req.user is not set.
C6_MisconfiguredRejected ==
    [][ (CarriesValidToken(last') /\ users[last'.token.id].exists
            /\ InvariantViolated(users[last'.token.id]))
        => Rejected(last', FORBIDDEN) ]_vars

\* A talent with both profiles, and active, was answered 403.
C6_Witness ==
    /\ CarriesValidToken(last)
    /\ users[last.token.id].exists
    /\ users[last.token.id].isActive
    /\ users[last.token.id].role = "TALENT"
    /\ users[last.token.id].talentProfile
    /\ users[last.token.id].employerProfile
    /\ Rejected(last, FORBIDDEN)

\* C7: requireAuth answers with the first failing check, in this order: no
\* header 401; scheme not "Bearer" or empty token 400; token invalid or
\* expired 401; user not found 401; user inactive 403; invariant violated
\* 403 "account misconfigured"; otherwise req.user = {id, role} and next()
\* is called once. next() is called in no other case.
C7_GateStateMachine ==
    [][ last'.op = "requireAuth" =>
        LET r == last'
            h == r.header
            id == r.token.id
        IN  IF h = <<>>
            THEN Rejected(r, UNAUTHORIZED)
            ELSE IF SchemeOf(h) # <<"Bearer">> \/ TokenOf(h) \in {Undefined, <<>>}
            THEN Rejected(r, BAD_REQUEST)
            ELSE IF ~CarriesValidToken(r)
            THEN Rejected(r, UNAUTHORIZED)
            ELSE IF ~users[id].exists
            THEN Rejected(r, UNAUTHORIZED)
            ELSE IF ~users[id].isActive
            THEN Rejected(r, FORBIDDEN)
            ELSE IF InvariantViolated(users[id])
            THEN Rejected(r, FORBIDDEN) /\ r.message = "account misconfigured"
            ELSE /\ r.nextCalls = 1
                 /\ r.reqUser = [id |-> id, role |-> users[id].role] ]_vars

\* A header with a wrong scheme that carries a token which does not verify
\* was answered 400, the earlier check.
C7_Witness ==
    /\ last.op = "requireAuth"
    /\ last.header = <<"Basic", " ", "<jwt>">>
    /\ bearer # NoAccess
    /\ ~(last.token.sig /\ now < last.token.exp)
    /\ Rejected(last, BAD_REQUEST)

\* C8: a request that carries a still valid access token which requireAuth
\* has let through before is rejected as soon as the stored user is gone,
\* inactive or inconsistent; when it passes, req.user carries the stored role.
C8_GateReevaluates ==
    [][ (CarriesValidToken(last') /\ admitted) =>
        LET id == last'.token.id IN
        IF ~users[id].exists \/ ~users[id].isActive \/ InvariantViolated(users[id])
        THEN last'.nextCalls = 0 /\ last'.reqUser = NoReqUser /\ ~last'.ok
        ELSE last'.reqUser = [id |-> id, role |-> users[id].role] ]_vars

\* The token passed before; its user was deleted since; the request that
\* carried it was answered 401.
C8_Witness ==
    /\ admitted
    /\ CarriesValidToken(last)
    /\ last.token = bearer
    /\ ~users[last.token.id].exists
    /\ Rejected(last, UNAUTHORIZED)

----------------------------------------------------------------------------
(* Login (SpecAcct) *)

\* the part of a login outcome the caller can tell apart
Outcome(r) == <<r.ok, r.statusCode, r.message>>

\* C9: login gives the same outcome (ok flag, status code, message) for an
\* e-mail without an account as for a verified account presented with a
\* wrong password.
C9_LoginIndistinguishable ==
    \A e1 \in Emails, e2 \in Emails, p \in Passwords :
        ( /\ FindUser(e1) = "none"
          /\ FindUser(e2) # "none"
          /\ users[UserOfEmail(e2)].isEmailVerified
          /\ ~BcryptCompare(p, users[UserOfEmail(e2)].password) )
        => Outcome(LoginResult(e1, p)) = Outcome(LoginResult(e2, p))

\* C10: login to an existing account whose e-mail is not verified answers ok
\* with requiresVerification, without access token, refresh token or cookie;
\* no refresh-token row is stored, and the only change is a new verification
\* token and expiry on that user.
C10_UnverifiedLogin ==
    [][ (last'.op = "login" /\ FindUser(last'.arg) # "none"
            /\ ~users[UserOfEmail(last'.arg)].isEmailVerified)
        => LET u == UserOfEmail(last'.arg) IN
           /\ last'.ok
           /\ last'.statusCode = OK
           /\ last'.requiresVerification
           /\ last'.token = NoAccess
           /\ last'.refreshToken = NoToken
           /\ last'.cookie = "none"
           /\ refreshTokens' = refreshTokens
           /\ users'[u].verificationToken # users[u].verificationToken
           /\ users'[u].verificationToken # Null
           /\ users'[u].verificationExpiresAt = now + VerifTtl
           /\ users' = [users EXCEPT
                          ![u].verificationToken = users'[u].verificationToken,
                          ![u].verificationExpiresAt = users'[u].verificationExpiresAt]
           /\ now' = now ]_vars

\* A login to a registered, unverified account was answered with the
\* requires-verification outcome, and the account holds a verification token
\* newer than the one registration gave it.
C10_Witness ==
    /\ last.op = "login"
    /\ last.ok
    /\ last.requiresVerification
    /\ last.cookie = "none"
    /\ refreshTokens = <<>>
    /\ FindUser(last.arg) # "none"
    /\ ~users[UserOfEmail(last.arg)].isEmailVerified
    /\ users[UserOfEmail(last.arg)].verificationToken = vtSeq
    /\ vtSeq > 1

----------------------------------------------------------------------------
(* Login and the sessions it opens (Spec) *)

\* C11: a login to a verified account with the matching password succeeds;
\* a successful login returns an access token of the user and a refresh
\* secret, appends one active row of that user that stores the secret and
\* expires at login time + the refresh TTL, and leaves every earlier row as
\* it was.
C11_LoginOpensOneSession ==
    [][ /\ \A e \in Emails, p \in Passwords :
              ( /\ FindUser(e) # "none"
                /\ users[UserOfEmail(e)].isEmailVerified
                /\ users[UserOfEmail(e)].password = <<"bcrypt", p>> )
              => LoginResult(e, p).ok /\ ~LoginResult(e, p).requiresVerification
        /\ (last'.op = "login" /\ last'.ok /\ ~last'.requiresVerification) =>
              LET u == UserOfEmail(last'.arg)
                  n == Len(refreshTokens)
              IN  /\ last'.token = [id |-> u, exp |-> now + AccessTtl, sig |-> TRUE]
                  /\ last'.refreshToken # NoToken
                  /\ Len(refreshTokens') = n + 1
                  /\ SubSeq(refreshTokens', 1, n) = refreshTokens
                  /\ refreshTokens'[n + 1].userId = u
                  /\ refreshTokens'[n + 1].revoked = FALSE
                  /\ refreshTokens'[n + 1].replacedById = Null
                  /\ refreshTokens'[n + 1].expiresAt = now + RefreshTtl
                  /\ RowOf(refreshTokens', last'.refreshToken) = n + 1
                  /\ RowOf(refreshTokens, last'.refreshToken) = 0 ]_vars

\* A second login of the same user succeeded while the session of the first
\* is still usable: two rotatable rows of one user.
C11_Witness ==
    /\ last.op = "login" /\ last.ok /\ ~last.requiresVerification
    /\ Len(refreshTokens) >= 2
    /\ \E i \in DOMAIN refreshTokens :
          /\ i < Len(refreshTokens)
          /\ refreshTokens[i].userId = refreshTokens[Len(refreshTokens)].userId
          /\ Rotatable(refreshTokens, i, now)
    /\ Rotatable(refreshTokens, Len(refreshTokens), now)
    /\ RowOf(refreshTokens, last.refreshToken) = Len(refreshTokens)

----------------------------------------------------------------------------
(* The refresh cookie (Spec) *)

\* C12: a refresh that presents a token and fails (unknown, replayed or
\* expired token) is answered with the "jwt" cookie cleared.
C12_FailedRefreshClearsCookie ==
    (last.op = "refresh" /\ ~last.ok /\ last.secret # NoToken)
        => last.cookie = "clear"

----------------------------------------------------------------------------
(* Password reset and the sessions of the user (SpecReset) *)

\* the stored user after a reset to newPassword
AfterReset(row, newPassword) ==
    [row EXCEPT !.password = <<"bcrypt", newPassword>>,
                !.isEmailVerified = TRUE,
                !.verificationToken = Null,
                !.verificationExpiresAt = Null]

\* every row of the user that exists in rows is revoked in after, and the
\* rows of the other users are as they were
AllRevokedIn(rows, after, u) ==
    /\ Len(after) = Len(rows)
    /\ \A i \in DOMAIN rows :
          IF rows[i].userId = u
          THEN after[i] = [rows[i] EXCEPT !.revoked = TRUE]
          ELSE after[i] = rows[i]

\* C13: a successful resetPassword of user U leaves no row of U that existed
\* before it non-revoked, and the new password, the cleared reset token and
\* the revocation take effect in one step: a reset that is answered with a
\* failure changes neither the password nor any row, and no step changes a
\* password or a row without being the successful answer of a reset or a
\* login.
C13_ResetRevokesAllAtomically ==
    [][ /\ (last'.op = "resetPassword" /\ last'.ok) =>
              /\ \E np \in Passwords :
                    users' = [users EXCEPT ![last'.arg] = AfterReset(@, np)]
              /\ AllRevokedIn(refreshTokens, refreshTokens', last'.arg)
        /\ (last'.op = "resetPassword" /\ ~last'.ok) =>
              /\ refreshTokens' = refreshTokens
              /\ \A u \in UserIds :
                    /\ users'[u].password = users[u].password
                    /\ users'[u].isEmailVerified = users[u].isEmailVerified
        /\ \A u \in UserIds :
              users'[u].password # users[u].password
                  => last'.op = "resetPassword" /\ last'.ok /\ last'.arg = u
        /\ (\E i \in DOMAIN refreshTokens :
                ~refreshTokens[i].revoked /\ refreshTokens'[i].revoked)
              => last'.op = "resetPassword" /\ last'.ok ]_vars

\* A reset succeeded for a user who had two open sessions and a different
\* password; both rows are revoked, a session of the other user is not.
C13_Witness ==
    /\ last.op = "resetPassword" /\ last.ok
    /\ users[last.arg].password = <<"bcrypt", "pw2">>
    /\ users[last.arg].verificationToken = Null
    /\ Cardinality({i \in DOMAIN refreshTokens :
                      refreshTokens[i].userId = last.arg
                      /\ refreshTokens[i].revoked}) >= 2
    /\ \A i \in DOMAIN refreshTokens :
          refreshTokens[i].userId = last.arg => refreshTokens[i].revoked
    /\ \E i \in DOMAIN refreshTokens :
          refreshTokens[i].userId # last.arg /\ ~refreshTokens[i].revoked

----------------------------------------------------------------------------
(* What the ledger persists (Spec) *)

\* a secret written to a column as it is
Plain(secret) == <<"plain", secret>>

\* C14: every stored row holds the hash of the secret that was issued for it
\* (the i-th row: the i-th secret issued) and never the secret itself; the
\* secret a login or refresh has just returned is stored only as its hash.
C14_NoRawSecretStored ==
    /\ \A i \in DOMAIN refreshTokens :
          /\ refreshTokens[i].token = <<"sha256", i>>
          /\ \A s \in 0..UnknownSecret : refreshTokens[i].token # Plain(s)
    /\ (last.op \in {"login", "refresh"} /\ last.refreshToken # NoToken) =>
          /\ refreshTokens[Len(refreshTokens)].token = <<"sha256", last.refreshToken>>
          /\ \A i \in DOMAIN refreshTokens :
                refreshTokens[i].token # Plain(last.refreshToken)

\* A login and a refresh have each stored a row; the refresh returned the
\* secret of the newest row.
C14_Witness ==
    /\ Len(refreshTokens) >= 2
    /\ last.op = "refresh" /\ last.ok
    /\ last.refreshToken = Len(refreshTokens)
    /\ refreshTokens[Len(refreshTokens)].token = <<"sha256", last.refreshToken>>

----------------------------------------------------------------------------
(* Revocation over every operation (SpecSessions) *)

\* C15: no step deletes a row, changes what a row stores, or sets revoked
\* back to false; a step only appends rows, sets revoked, or (rotation)
\* links a row to its successor. A row that is revoked cannot be rotated
\* after the step either.
C15_RevocationMonotonic ==
    [][ /\ Len(refreshTokens') >= Len(refreshTokens)
        /\ \A i \in DOMAIN refreshTokens :
              /\ refreshTokens'[i].userId = refreshTokens[i].userId
              /\ refreshTokens'[i].token = refreshTokens[i].token
              /\ refreshTokens'[i].expiresAt = refreshTokens[i].expiresAt
              /\ refreshTokens[i].revoked => refreshTokens'[i].revoked
              /\ refreshTokens[i].replacedById # Null =>
                    refreshTokens'[i].replacedById = refreshTokens[i].replacedById
              /\ refreshTokens[i].revoked =>
                    /\ ~Rotatable(refreshTokens', i, now')
                    /\ RotateOutcome(refreshTokens, i) # "rotated" ]_vars

\* A session that was closed without being rotated is still revoked after a
\* reset token was issued and consumed and a new session was opened; a
\* refresh with its secret was refused.
C15_Witness ==
    /\ Len(refreshTokens) >= 2
    /\ refreshTokens[1].revoked
    /\ refreshTokens[1].replacedById = Null
    /\ ~refreshTokens[Len(refreshTokens)].revoked
    /\ last.op = "refresh" /\ last.secret = 1 /\ ~last.ok
    /\ vtSeq >= 1
    /\ users["u1"].verificationToken = Null

----------------------------------------------------------------------------
(* Refresh with an unknown secret (Spec) *)

\* C16: a refresh that presents a secret no row stores is answered with a
\* failure result, returns neither an access token nor a refresh secret, and
\* changes no row and no user.
C16_UnknownSecretNoEffect ==
    [][ (last'.op = "refresh" /\ last'.secret # NoToken
            /\ RowOf(refreshTokens, last'.secret) = 0)
        => /\ ~last'.ok
           /\ last'.token = NoAccess
           /\ last'.refreshToken = NoToken
           /\ last'.cookie # "set"
           /\ refreshTokens' = refreshTokens
           /\ users' = users
           /\ rotOK' = rotOK ]_vars

\* With an open session in the ledger, a refresh presented a secret that was
\* never issued and was refused; the session is still rotatable.
C16_Witness ==
    /\ last.op = "refresh"
    /\ last.secret = UnknownSecret
    /\ ~last.ok
    /\ last.message = "invalid refresh token"
    /\ RowOf(refreshTokens, last.secret) = 0
    /\ \E i \in DOMAIN refreshTokens : Rotatable(refreshTokens, i, now)

----------------------------------------------------------------------------
(* logoutAllDevices (Spec) *)

\* C17: a logoutAllDevices of user U that succeeds sets revoked on every
\* non-revoked row of U and changes nothing else: afterwards no row of U can
\* be rotated, and the rows of every other user and all users are unchanged.
C17_LogoutAllRevokesOnlyOwn ==
    [][ (last'.op = "logoutAll" /\ last'.ok) =>
          /\ AllRevokedIn(refreshTokens, refreshTokens', last'.arg)
          /\ \A i \in DOMAIN refreshTokens' :
                refreshTokens'[i].userId = last'.arg =>
                    /\ ~Rotatable(refreshTokens', i, now')
                    /\ \A s \in 1..Len(refreshTokens') :
                          RowOf(refreshTokens', s) = i
                              => RefreshResult(refreshTokens', s).ok = FALSE
          /\ users' = users ]_vars

\* The user had two open sessions and the other user one; after
\* logoutAllDevices both of the user's rows are revoked and the other user's
\* session is still rotatable.
C17_Witness ==
    /\ last.op = "logoutAll" /\ last.ok
    /\ Cardinality({i \in DOMAIN refreshTokens :
                      refreshTokens[i].userId = last.arg
                      /\ refreshTokens[i].revoked
                      /\ refreshTokens[i].replacedById = Null
                      /\ ~(now > refreshTokens[i].expiresAt)}) >= 2
    /\ \E i \in DOMAIN refreshTokens :
          refreshTokens[i].userId # last.arg /\ Rotatable(refreshTokens, i, now)

----------------------------------------------------------------------------
(* Ledger mutations under failure (SpecTx) *)

\* the step is the commit or the failure of a revoke-all: logoutAllDevices,
\* the end of resetPassword's transaction, or a rotation that found a replay
RevokeAllStep ==
    \/ last' # last /\ last'.op \in {"logoutAll", "resetPassword"}
    \/ \E p \in Procs :
          /\ req[p].pc = "rotate" /\ req'[p].pc = "respond"
          /\ req'[p].rotation.message = "refresh token reuse detected"

\* C18: in every state a row is marked rotated (it names a successor) exactly
\* when a rotation of its secret succeeded, its successor is then a stored
\* row of the same user, and the row is revoked; and every revoke-all step,
\* failed or not, leaves the rows as they were or revokes all rows of the
\* user and no other.
C18_NoHalfAppliedMutation ==
    [][ /\ \A i \in DOMAIN refreshTokens' :
              /\ (refreshTokens'[i].replacedById # Null) <=> (rotOK'[i] = 1)
              /\ refreshTokens'[i].replacedById # Null =>
                    /\ refreshTokens'[i].replacedById \in DOMAIN refreshTokens'
                    /\ refreshTokens'[i].replacedById > i
                    /\ refreshTokens'[refreshTokens'[i].replacedById].userId
                          = refreshTokens'[i].userId
                    /\ refreshTokens'[i].revoked
        /\ Cardinality({i \in DOMAIN refreshTokens' :
                            refreshTokens'[i].replacedById # Null})
              = Cardinality({refreshTokens'[i].replacedById :
                                i \in {j \in DOMAIN refreshTokens' :
                                         refreshTokens'[j].replacedById # Null}})
        /\ RevokeAllStep =>
              \/ refreshTokens' = refreshTokens
              \/ \E u \in UserIds : AllRevokedIn(refreshTokens, refreshTokens', u)
        /\ \A p \in Procs :
              (req[p].pc \in {"rotate", "tx"} /\ req'[p].pc # req[p].pc
                  /\ ( \/ req'[p].rotation.statusCode = INTERNAL_SERVER_ERROR
                       \/ last'.statusCode = INTERNAL_SERVER_ERROR /\ last' # last ))
              => refreshTokens' = refreshTokens /\ users' = users ]_vars

\* A rotation was rolled back and its request answered with the failure
\* while the presented session is still rotatable, next to a row that an
\* earlier rotation replaced.
C18_Witness ==
    /\ last.op = "refresh"
    /\ last.statusCode = INTERNAL_SERVER_ERROR
    /\ RowOf(refreshTokens, last.secret) # 0
    /\ Rotatable(refreshTokens, RowOf(refreshTokens, last.secret), now)
    /\ \E i \in DOMAIN refreshTokens :
          /\ refreshTokens[i].replacedById = RowOf(refreshTokens, last.secret)
          /\ rotOK[i] = 1

----------------------------------------------------------------------------
(* Expired access tokens (SpecGate) *)

\* what the client sees of a gate answer
GateResponse(r) == <<r.ok, r.statusCode, r.message, r.nextCalls, r.reqUser>>

\* C19: a request carrying "Bearer <token>" with a well signed access token
\* whose expiry is before the current time is answered 401 "invalid or
\* expired token" without next(), and that answer is the one a token with a
\* bad signature and a token that is no JWT get.
C19_ExpiredTokenRejected ==
    [][ ( /\ last'.op = "requireAuth"
          /\ last'.header # <<>>
          /\ SchemeOf(last'.header) = <<"Bearer">>
          /\ TokenOf(last'.header) = <<"<jwt>">>
          /\ last'.token.sig
          /\ last'.token.exp < now )
        => /\ Rejected(last', UNAUTHORIZED)
           /\ last'.message = "invalid or expired token"
           /\ VerifyAccessToken(<<"<jwt>">>, last'.token) = InvalidPayload
           /\ GateResponse(last')
                = GateResponse(RequireAuthResult(last'.header,
                                                 [last'.token EXCEPT !.sig = FALSE]))
           /\ GateResponse(last')
                = GateResponse(RequireAuthResult(<<"Bearer", " ", "x">>, last'.token)) ]_vars

\* The token of an active, consistent user, expired by one tick, was refused.
C19_Witness ==
    /\ last.op = "requireAuth"
    /\ last.header = <<"Bearer", " ", "<jwt>">>
    /\ last.token.sig
    /\ last.token.exp + 1 = now
    /\ users[last.token.id].exists
    /\ users[last.token.id].isActive
    /\ ~InvariantViolated(users[last.token.id])
    /\ Rejected(last, UNAUTHORIZED)
    /\ last.message = "invalid or expired token"

----------------------------------------------------------------------------
(* Verification and reset tokens are single-use (SpecAcct) *)

TokenOps == {"verifyEmail", "resetPassword"}
InvalidOrExpired ==
    {"invalid or expired verification token", "invalid or expired reset token"}

\* C20: a verifyEmail or resetPassword that succeeds leaves the user with
\* verificationToken and verificationExpiresAt null and no user holding the
\* presented token; a token no user holds, presented to either operation,
\* is answered "invalid or expired ..." and nothing changes; and no token
\* that was issued before is ever stored again.
C20_TokenSingleUse ==
    [][ /\ (last'.op \in TokenOps /\ last'.ok) =>
              /\ users'[last'.arg].verificationToken = Null
              /\ users'[last'.arg].verificationExpiresAt = Null
              /\ \A v \in UserIds : users'[v].verificationToken # last'.secret
        /\ (last'.op \in TokenOps
                /\ \A v \in UserIds : users[v].verificationToken # last'.secret) =>
              /\ ~last'.ok
              /\ last'.message \in InvalidOrExpired
              /\ users' = users
              /\ refreshTokens' = refreshTokens
        /\ \A v \in UserIds :
              (users'[v].verificationToken # users[v].verificationToken
                  /\ users'[v].verificationToken # Null)
              => users'[v].verificationToken > vtSeq ]_vars

\* The only token ever issued, the registration token, was consumed by a
\* successful verification or reset; presented again it was refused.
C20_Witness ==
    /\ vtSeq = 1
    /\ users["u1"].exists /\ users["u1"].isEmailVerified
    /\ users["u1"].verificationToken = Null
    /\ users["u1"].verificationExpiresAt = Null
    /\ last.op \in TokenOps
    /\ last.secret = 1
    /\ ~last.ok
    /\ last.message \in InvalidOrExpired

----------------------------------------------------------------------------
(* requestPasswordReset does not reveal accounts (SpecAcct) *)

\* C21: requestPasswordReset answers ok, 200 and the one fixed message for
\* every e-mail; in production the response data is the same for every
\* e-mail; and for an e-mail without an account nothing changes.
C21_ResetRequestUniform ==
    [][ /\ last'.op = "requestPasswordReset" =>
              /\ Outcome(last')
                    = <<TRUE, OK,
                        "if an account exists, a password reset email has been sent">>
              /\ last'.cookie = "none"
              /\ FindUser(last'.arg) = "none" =>
                    /\ users' = users
                    /\ refreshTokens' = refreshTokens
                    /\ vtSeq' = vtSeq
        /\ \A e1 \in Emails, e2 \in Emails :
              RequestPasswordResetData(e1, "production")
                 = RequestPasswordResetData(e2, "production") ]_vars

\* A reset was requested for an address without an account while another
\* address has an account that holds a reset token.
C21_Witness ==
    /\ last.op = "requestPasswordReset"
    /\ last.arg = "nobody@x"
    /\ last.ok
    /\ FindUser("nobody@x") = "none"
    /\ FindUser("a@x") # "none"
    /\ users["u1"].verificationToken # Null
    /\ RequestPasswordResetData("a@x", "development") # Null
    /\ RequestPasswordResetData("nobody@x", "development") = Null

\* ---------------------------------------------------------------------
\* requireRole(allowed): the role gate mounted after requireAuth.
\* ---------------------------------------------------------------------

RoleNames == {"TALENT", "EMPLOYER", "MODERATOR"}

\* The values requireRole is built with: a single role name or an array.
AllowedArgs ==
    {[isArray |-> FALSE, items |-> <<r>>] : r \in RoleNames}
    \cup {[isArray |-> TRUE, items |-> s] :
            s \in {<<>>, <<"TALENT">>, <<"EMPLOYER">>,
                   <<"TALENT", "EMPLOYER">>, <<"MODERATOR">>}}

\* req.user as the role gate may find it: unset, set without a role, or
\* set with a role string (the stored roles and a lower-cased one).
RoleUndefined == "undefined"
ReqUsers ==
    {NoReqUser}
    \cup {[id |-> "u1", role |-> r] :
            r \in RoleNames \cup {"talent", RoleUndefined}}

\* A string or an array is normalised to the set of its role names.
AllowedSet(allowed) == {allowed.items[i] : i \in 1..Len(allowed.items)}

ToUpper(role) ==
    CASE role = "talent" -> "TALENT"
      [] OTHER -> role

RoleAllowedIgnoringCase(role, allowed) == ToUpper(role) \in AllowedSet(allowed)

\* Membership is exact string equality.
RoleAllowed(role, allowed) == role \in AllowedSet(allowed)

RequireRoleResult(reqUser, allowed) ==
    IF reqUser = NoReqUser \/ reqUser.role = RoleUndefined
    THEN [Res("requireRole", "", NoToken, FALSE, UNAUTHORIZED, "unauthorized")
            EXCEPT !.reqUser = reqUser, !.allowed = allowed]
    ELSE IF ~RoleAllowed(reqUser.role, allowed)
    THEN [Res("requireRole", "", NoToken, FALSE, FORBIDDEN, "forbidden")
            EXCEPT !.reqUser = reqUser, !.allowed = allowed]
    ELSE [Res("requireRole", "", NoToken, TRUE, OK, "")
            EXCEPT !.reqUser = reqUser, !.allowed = allowed, !.nextCalls = 1]

RequireRole(reqUser, allowed) ==
    /\ last' = RequireRoleResult(reqUser, allowed)
    /\ UNCHANGED <<now, users, refreshTokens, vtSeq, rotOK, req, bearer,
                   admitted, applications, vtKind>>

\* The request requireAuth has just let through reaches the role gate of
\* its router.
RequireRoleAfterAuth(allowed) ==
    /\ last.op = "requireAuth"
    /\ last.nextCalls = 1
    /\ RequireRole(last.reqUser, allowed)

NextRole ==
    \/ \E u \in UserIds : IssueAccessToken(u)
    \/ RequireAuth(<<"Bearer", " ", "<jwt>">>, FALSE)
    \/ \E allowed \in AllowedArgs : RequireRoleAfterAuth(allowed)
    \/ \E ru \in ReqUsers, allowed \in AllowedArgs : RequireRole(ru, allowed)
    \/ Tick

SpecRole == InitGate /\ [][NextRole]_vars

ExistingJobs == {"j1", "j2"}
JobIds == ExistingJobs \cup {"nonexistent"}

\* prisma.talent.findUnique({where: {userId}}): the talent profile's id
\* (written as the user's id), or Null.
GetTalentByUserId(u) ==
    IF users[u].exists /\ users[u].talentProfile THEN u ELSE "null"

\* Some row already holds the pair (jobId, talentId).
Applied(apps, jobId, talentId) ==
    \E i \in 1..Len(apps) : apps[i].jobId = jobId /\ apps[i].talentId = talentId

\* The two lookups.  A miss answers 404; otherwise the request goes on to
\* the insert, and other requests may run before it gets there (wasActive
\* notes that the pair was not yet applied at this point).
ApplyBegin(p, u, jobId) ==
    /\ req[p].pc = "idle"
    /\ IF GetTalentByUserId(u) = "null"
       THEN /\ last' = [Res("applyToJob", u, NoToken, FALSE, NOT_FOUND,
                            "talent not found") EXCEPT !.jobId = jobId]
            /\ UNCHANGED req
       ELSE IF jobId \notin ExistingJobs
       THEN /\ last' = [Res("applyToJob", u, NoToken, FALSE, NOT_FOUND,
                            "job not found") EXCEPT !.jobId = jobId]
            /\ UNCHANGED req
       ELSE /\ last' = [Res("applyToJob.begin", u, NoToken, TRUE, OK, "")
                           EXCEPT !.jobId = jobId]
            /\ req' = [req EXCEPT ![p] = [IdleReq EXCEPT !.pc = "apply.create",
                                             !.user = GetTalentByUserId(u),
                                             !.wasActive =
                                                 ~Applied(applications, jobId,
                                                          GetTalentByUserId(u)),
                                             !.jobId = jobId]]
    /\ UNCHANGED <<now, users, refreshTokens, vtSeq, rotOK, bearer, admitted,
                   applications, vtKind>>

\* An insert that no constraint of the store can reject.
ApplyCreateUnconstrained(p) ==
    /\ req[p].pc = "apply.create"
    /\ applications' = Append(applications,
                              [jobId |-> req[p].jobId, talentId |-> req[p].user])
    /\ last' = [Res("applyToJob", req[p].user, NoToken, TRUE, CREATED,
                    "application created") EXCEPT !.jobId = req[p].jobId]
    /\ req' = [req EXCEPT ![p] = IdleReq]
    /\ UNCHANGED <<now, users, refreshTokens, vtSeq, rotOK, bearer, admitted,
                   vtKind>>

\* prisma.application.create inside try/catch.  The store rejects a second
\* row for the same (jobId, talentId); the catch turns the rejection into
\* 409.
ApplyCreate(p) ==
    /\ req[p].pc = "apply.create"
    /\ IF Applied(applications, req[p].jobId, req[p].user)
       THEN /\ last' = [Res("applyToJob", req[p].user, NoToken, FALSE, CONFLICT,
                            "already applied")
                           EXCEPT !.jobId = req[p].jobId,
                                  !.raced = req[p].wasActive]
            /\ UNCHANGED applications
       ELSE /\ applications' = Append(applications,
                                      [jobId |-> req[p].jobId,
                                       talentId |-> req[p].user])
            /\ last' = [Res("applyToJob", req[p].user, NoToken, TRUE, CREATED,
                            "application created") EXCEPT !.jobId = req[p].jobId]
    /\ req' = [req EXCEPT ![p] = IdleReq]
    /\ UNCHANGED <<now, users, refreshTokens, vtSeq, rotOK, bearer, admitted,
                   vtKind>>

\* The insert fails for any other reason: the same catch answers 409.
ApplyCreateError(p) ==
    /\ req[p].pc = "apply.create"
    /\ last' = [Res("applyToJob", req[p].user, NoToken, FALSE, CONFLICT,
                    "already applied") EXCEPT !.jobId = req[p].jobId]
    /\ req' = [req EXCEPT ![p] = IdleReq]
    /\ UNCHANGED <<now, users, refreshTokens, vtSeq, rotOK, bearer, admitted,
                   applications, vtKind>>

\* A verified talent and a verified employer (who has no talent profile).
InitApply ==
    /\ InitRest
    /\ users = [u \in UserIds |->
                  IF u = "u1" THEN VerifiedUser("TALENT")
                  ELSE VerifiedUser("EMPLOYER")]

NextApply ==
    \/ \E p \in Procs, u \in UserIds, j \in JobIds : ApplyBegin(p, u, j)
    \/ \E p \in Procs : ApplyCreate(p)
    \/ \E p \in Procs : ApplyCreateError(p)
    \/ \E u \in UserIds : PrismaWriteProfile(u, "talent", TRUE)
    \/ Tick

SpecApply == InitApply /\ [][NextApply]_vars

\* The step is the lookup part of an applyToJob call (no request leaves
\* its insert).
ApplyLookupStep ==
    \A p \in Procs : ~(req[p].pc = "apply.create" /\ req'[p].pc = "idle")

\* C23: no two applications share a (job, talent) pair; an applyToJob
\* that reaches its insert while the pair is already applied, whether the
\* earlier application finished before it started or in between its
\* lookups and its insert, answers 409 "already applied" and creates no
\* row; applyToJob for a missing job or a user without a talent profile
\* answers 404 and creates no row.
C23_OneApplicationPerPair ==
    [][ /\ \A i, j \in 1..Len(applications') :
              (/\ applications'[i].jobId = applications'[j].jobId
               /\ applications'[i].talentId = applications'[j].talentId)
              => i = j
        /\ (last'.op = "applyToJob"
            /\ Applied(applications, last'.jobId, last'.arg))
           => /\ last'.statusCode = CONFLICT
              /\ last'.message = "already applied"
              /\ applications' = applications
        /\ (last'.op \in {"applyToJob", "applyToJob.begin"}
            /\ ApplyLookupStep
            /\ (last'.jobId \notin ExistingJobs
                \/ ~users[last'.arg].talentProfile))
           => /\ last'.op = "applyToJob"
              /\ last'.statusCode = NOT_FOUND
              /\ applications' = applications
      ]_vars

\* Two requests for the same pair both passed their lookups before either
\* inserted; the first insert succeeded and the second was answered 409.
C23_Witness ==
    /\ last.op = "applyToJob"
    /\ last.statusCode = CONFLICT
    /\ last.raced
    /\ Len(applications) = 1

\* ---------------------------------------------------------------------
\* Moderation of accounts: delete and activate/deactivate, with accounts
\* registering and verifying meanwhile.
\* ---------------------------------------------------------------------

NextModeration ==
    \/ \E u \in UserIds : DeleteUser(u)
    \/ \E u \in UserIds, isActive \in BOOLEAN : SetUserActive(u, isActive)
    \/ \E p \in Passwords, role \in {"TALENT", "EMPLOYER", "MODERATOR"} :
          Register("a@x", p, role)
    \/ \E vt \in PresentableVt : VerifyEmail(vt)
    \/ Tick

SpecModeration == Init /\ [][NextModeration]_vars

NextResetRace ==
    \/ RequestPasswordReset("a@x")
    \/ \E p \in Procs, vt \in PresentableVt, np \in Passwords :
          ResetBegin(p, vt, np, "none")
    \/ \E p \in Procs : ResetTxUserUpdate(p)
    \/ \E p \in Procs : ResetTxRevoke(p)
    \/ \E p \in Procs : ResetCommit(p)
    \/ \E p \in Procs : ResetAbort(p)
    \/ Tick

SpecResetRace == Init /\ [][NextResetRace]_vars

\* The step completes a resetPassword call with success.
ResetSucceeds ==
    /\ \E p \in Procs : req[p].pc = "tx" /\ req'[p].pc = "idle"
    /\ last'.op = "resetPassword"
    /\ last'.ok

\* C25: a token value authorises at most one successful resetPassword,
\* also when the calls interleave between the token lookup and the
\* transaction that clears the token: once a resetPassword has answered
\* "password reset successful" for a token, no resetPassword completes
\* successfully for the same token.
C25_OneResetPerToken ==
    [][ (/\ last.op = "resetPassword"
         /\ last.ok
         /\ ResetSucceeds)
        => last'.secret # last.secret
      ]_vars

\* ---------------------------------------------------------------------
\* An account that registered and has not verified its e-mail.
\* ---------------------------------------------------------------------

\* The account's registration token has expired and was cleared when it was
\* presented; the moderator is seeded.
InitPending ==
    /\ InitRest
    /\ users = [u \in UserIds |->
                  IF u = "u1"
                  THEN [VerifiedUser("TALENT") EXCEPT !.isEmailVerified = FALSE]
                  ELSE SeededModerator]

NextPending ==
    \/ RequestPasswordReset("a@x")
    \/ \E p \in Passwords : Login("a@x", p)
    \/ \E vt \in PresentableVt, np \in Passwords, op \in Passwords \cup {"none"} :
          ResetPassword(vt, np, op)
    \/ \E vt \in PresentableVt : VerifyEmail(vt)
    \/ Tick

SpecPending == InitPending /\ [][NextPending]_vars

\* C26: one token is outstanding per user and login replaces it without
\* any credential: a login for an unverified account, whatever the
\* password, stores a new verificationToken, so the token issued before it
\* (by requestPasswordReset in particular) is held by no user any more, and
\* resetPassword with a token no user holds fails and writes nothing.
C26_LoginReplacesToken ==
    [][ /\ (/\ last'.op = "login"
            /\ FindUser(last'.arg) # "none"
            /\ ~users[UserOfEmail(last'.arg)].isEmailVerified)
           => LET u == UserOfEmail(last'.arg) IN
              /\ last'.requiresVerification
              /\ vtSeq' = vtSeq + 1
              /\ users'[u].verificationToken = vtSeq'
              /\ \A w \in UserIds, vt \in 1..vtSeq :
                    users'[w].verificationToken # vt
        /\ (/\ last'.op = "resetPassword"
            /\ FindUserByVerificationToken(last'.secret) = "none")
           => /\ ~last'.ok
              /\ last'.message = "invalid or expired reset token"
              /\ users' = users
              /\ refreshTokens' = refreshTokens
      ]_vars

\* The token issued by requestPasswordReset was replaced by a login, and
\* resetPassword then refused it while the account still holds the newer
\* token, unexpired.
C26_Witness ==
    /\ vtKind = <<"requestPasswordReset", "login">>
    /\ last.op = "resetPassword"
    /\ last.secret = 1
    /\ ~last.ok
    /\ last.message = "invalid or expired reset token"
    /\ users["u1"].verificationToken = 2
    /\ ~users["u1"].isEmailVerified
    /\ ~IsPast(users["u1"].verificationExpiresAt)

----------------------------------------------------------------------------
(* Tokens carry no kind (SpecAcct) *)

\* the token is one an operation issued, some user holds it and it has not
\* expired
Outstanding(vt) ==
    /\ vt \in 1..Len(vtKind)
    /\ FindUserByVerificationToken(vt) # "none"
    /\ users[FindUserByVerificationToken(vt)].verificationExpiresAt # Null
    /\ ~IsPast(users[FindUserByVerificationToken(vt)].verificationExpiresAt)

\* C27: resetPassword succeeds with any unexpired value stored in a user's
\* verificationToken field, whichever operation issued it (register, the
\* login re-send or requestPasswordReset), unless a supplied old password
\* of a verified account is wrong; it then sets a new password, marks the
\* e-mail verified and clears the token.  verifyEmail accepts such a
\* value for an unverified user, a requestPasswordReset token included.
C27_TokensCarryNoKind ==
    [][ /\ (/\ last'.op = "resetPassword"
            /\ Outstanding(last'.secret)
            /\ vtKind[last'.secret]
                  \in {"register", "login", "requestPasswordReset"})
           => LET u == FindUserByVerificationToken(last'.secret) IN
              /\ ~users[u].isEmailVerified => last'.ok
              /\ ~last'.ok => /\ last'.message = "invalid old password"
                              /\ users' = users
              /\ last'.ok => /\ users'[u].isEmailVerified
                             /\ users'[u].verificationToken = Null
                             /\ users'[u].verificationExpiresAt = Null
                             /\ \E np \in Passwords :
                                   users'[u].password = BcryptHash(np)
        /\ (/\ last'.op = "verifyEmail"
            /\ Outstanding(last'.secret)
            /\ ~users[FindUserByVerificationToken(last'.secret)].isEmailVerified)
           => /\ last'.ok
              /\ users'[FindUserByVerificationToken(last'.secret)].isEmailVerified
      ]_vars

\* The token register issued was presented to resetPassword, which set the
\* password and verified the e-mail of the account.
C27_Witness ==
    /\ last.op = "resetPassword"
    /\ last.ok
    /\ vtKind[last.secret] = "register"
    /\ users["u1"].isEmailVerified
    /\ users["u1"].verificationToken = Null

\* ---------------------------------------------------------------------
\* One account's sessions and the access tokens its client holds.
\* ---------------------------------------------------------------------

BearerHeader == <<"Bearer", " ", "<jwt>">>

\* The client keeps the access token that login or refresh returned and
\* sends it with its next requests.
ClientKeepsToken ==
    /\ last.op \in {"login", "refresh"}
    /\ last.ok
    /\ last.token # NoAccess
    /\ bearer # last.token
    /\ bearer' = last.token
    /\ admitted' = FALSE
    /\ UNCHANGED <<now, users, refreshTokens, vtSeq, last, rotOK, req,
                   applications, vtKind>>

NextAccess ==
    \/ Len(refreshTokens) < MaxRows /\ Login("a@x", "pw1")
    \/ ClientKeepsToken
    \/ \E s \in 1..Len(refreshTokens) :
          /\ RotateOutcome(refreshTokens, s) = "rotated" => Len(refreshTokens) < MaxRows
          /\ Refresh(s)
    \/ \E s \in 1..Len(refreshTokens) : Logout(s)
    \/ LogoutAllDevices("u1")
    \/ RequestPasswordReset("a@x")
    \/ \E vt \in PresentableVt : ResetPassword(vt, "pw2", "none")
    \/ RequireAuth(BearerHeader, FALSE)
    \/ Tick

SpecAccess == Init /\ [][NextAccess]_vars

\* the held access token is signed and unexpired, and its user exists, is
\* active and satisfies the role-profile invariant
HeldTokenGood ==
    /\ bearer # NoAccess
    /\ bearer.sig
    /\ now < bearer.exp
    /\ users[bearer.id].exists
    /\ users[bearer.id].isActive
    /\ ~InvariantViolated(users[bearer.id])

\* the step revokes a refresh-token row of the user of the held token
RevokesSessionOfHolder ==
    \E i \in DOMAIN refreshTokens :
        /\ refreshTokens[i].userId = bearer.id
        /\ ~refreshTokens[i].revoked
        /\ refreshTokens'[i].revoked

\* C28: revoking refresh tokens does not revoke access tokens: after a
\* logout, logoutAll, replay-triggered revocation or resetPassword has
\* revoked rows of the user, the access token issued earlier still passes
\* requireAuth while it is unexpired and its user exists, is active and
\* satisfies the role-profile invariant; requireAuth admits such a token
\* whatever the ledger holds.
C28_AccessTokenOutlivesRevocation ==
    [][ /\ (/\ last'.op \in {"logout", "logoutAll", "refresh", "resetPassword"}
            /\ RevokesSessionOfHolder
            /\ HeldTokenGood')
           => RequireAuthResult(BearerHeader, bearer)'.nextCalls = 1
        /\ (last'.op = "requireAuth" /\ HeldTokenGood)
           => /\ last'.nextCalls = 1
              /\ last'.reqUser.id = bearer.id
      ]_vars

\* requireAuth admitted the access token although every refresh-token row
\* of its user is revoked.
C28_Witness ==
    /\ last.op = "requireAuth"
    /\ last.nextCalls = 1
    /\ last.token = bearer
    /\ Len(refreshTokens) >= 1
    /\ \A i \in DOMAIN refreshTokens :
          refreshTokens[i].userId = bearer.id /\ refreshTokens[i].revoked

\* ---------------------------------------------------------------------
\* A moderator activates and deactivates an account that logs in,
\* refreshes and sends requests.
\* ---------------------------------------------------------------------

NextDeactivated ==
    \/ \E p \in Passwords : Len(refreshTokens) < MaxRows /\ Login("a@x", p)
    \/ ClientKeepsToken
    \/ \E s \in 1..Len(refreshTokens) :
          /\ RotateOutcome(refreshTokens, s) = "rotated" => Len(refreshTokens) < MaxRows
          /\ Refresh(s)
    \/ \E a \in BOOLEAN : SetUserActive("u1", a)
    \/ RequireAuth(BearerHeader, FALSE)
    \/ Tick

SpecDeactivated == Init /\ [][NextDeactivated]_vars

\* the account exists, its e-mail is verified and it is deactivated
Deactivated(u) ==
    users[u].exists /\ users[u].isEmailVerified /\ ~users[u].isActive

\* C29: the active flag is enforced only at requireAuth: while a user is
\* deactivated every request through requireAuth with a valid access
\* token of that user, one issued before the deactivation included, is
\* answered 403 "account deactivated"; login with the right password and
\* refresh with a rotatable token still succeed for that user and issue an
\* access token and a new refresh-token row (a step that leaves the held
\* token alone is a handler's, not the client's).
C29_ActiveOnlyAtGate ==
    [][ /\ (/\ last'.op = "requireAuth"
            /\ bearer # NoAccess /\ bearer.sig /\ now < bearer.exp
            /\ Deactivated(bearer.id))
           => /\ last'.statusCode = FORBIDDEN
              /\ last'.message = "account deactivated"
              /\ last'.nextCalls = 0
        /\ Deactivated("u1")
           => \A p \in Passwords :
                 BcryptCompare(p, users["u1"].password)
                 => /\ LoginResult("a@x", p).ok
                    /\ LoginResult("a@x", p).token = GenerateAccessToken("u1")
                    /\ LoginResult("a@x", p).refreshToken # NoToken
        /\ (last'.op = "login" /\ last'.ok /\ Deactivated("u1")
            /\ bearer' = bearer)
           => /\ Len(refreshTokens') = Len(refreshTokens) + 1
              /\ Rotatable(refreshTokens', Len(refreshTokens'), now)
              /\ refreshTokens'[Len(refreshTokens')].userId = "u1"
        /\ (/\ last'.op = "refresh"
            /\ bearer' = bearer
            /\ Deactivated("u1")
            /\ last'.secret \in 1..Len(refreshTokens)
            /\ Rotatable(refreshTokens, last'.secret, now))
           => /\ last'.ok
              /\ last'.token = GenerateAccessToken("u1")
              /\ Len(refreshTokens') = Len(refreshTokens) + 1
      ]_vars

\* The account was deactivated while its client held an access token the
\* gate had admitted; the gate now refuses that token, and a login after
\* the deactivation was answered with new tokens.
C29_Witness ==
    /\ last.op = "login"
    /\ last.ok
    /\ last.token # NoAccess
    /\ Deactivated("u1")
    /\ admitted
    /\ bearer # NoAccess
    /\ RequireAuthResult(BearerHeader, bearer).message = "account deactivated"
    /\ Rotatable(refreshTokens, Len(refreshTokens), now)

----------------------------------------------------------------------------
(* Registration and the role-profile invariant (SpecAcct) *)

\* C30: every user register creates has role TALENT with a talent profile
\* and no employer profile, or role EMPLOYER with an employer profile and
\* no talent profile, user and profile appearing in the same step; no step
\* creates a MODERATOR; a register answered 400 (any other role) or 409
\* (the e-mail already has an account) changes no user and no profile, and
\* a register for an e-mail that has an account is never answered 201.
C30_RegisterEstablishesInvariant ==
    [][ /\ \A u \in UserIds :
              /\ (users'[u].exists /\ ~users[u].exists)
                 => /\ last'.op = "register"
                    /\ last'.statusCode = CREATED
                    /\ UserOfEmail(last'.arg) = u
                    /\ users'[u].role \in {"TALENT", "EMPLOYER"}
                    /\ users'[u].talentProfile = (users'[u].role = "TALENT")
                    /\ users'[u].employerProfile = (users'[u].role = "EMPLOYER")
                    /\ ~InvariantViolated(users'[u])
              /\ (users'[u].exists /\ users'[u].role = "MODERATOR")
                 => (users[u].exists /\ users[u].role = "MODERATOR")
        /\ (last'.op = "register" /\ vtSeq' = vtSeq)
           => /\ last'.statusCode \in {BAD_REQUEST, CONFLICT}
              /\ ~last'.ok
              /\ users' = users
        /\ (last'.op = "register" /\ vtSeq' # vtSeq)
           => /\ last'.statusCode = CREATED
              /\ ~users[UserOfEmail(last'.arg)].exists
              /\ users'[UserOfEmail(last'.arg)].exists
      ]_vars

\* register created an employer together with its employer profile.
C30_Witness ==
    /\ last.op = "register"
    /\ last.statusCode = CREATED
    /\ users["u1"].exists
    /\ users["u1"].role = "EMPLOYER"
    /\ users["u1"].employerProfile
    /\ ~users["u1"].talentProfile

====
